---- MODULE Spec2Model ----
(***************************************************************************)
(* A model of KuramaSerp (scripts/scrape-ads-playwright.cjs): the location *)
(* resolver (encodeUULE, resolveGeo), the ad extractor (extractAds), the   *)
(* aggregation and report (buildTransformedData, buildSummary) and the     *)
(* keyword loop of main.                                                   *)
(*                                                                         *)
(* A JavaScript string is a sequence of one-character strings, so that     *)
(* length, split, trim and toLowerCase are computed as the code computes   *)
(* them.  An optional value (null / undefined / absent property) is the    *)
(* empty sequence None, a present one is the one-element sequence Some(x). *)
(***************************************************************************)
EXTENDS Integers, Sequences, FiniteSets, TLC

VARIABLES
  gpc, gloc, gres, gtoken,     \* location resolver: position, input, results
  epc, epage, ekw, eres,       \* ad extractor: position, page, keyword, result
  pc,                          \* main: "idle", "args", "exit", "start", "home", "loop", "done", "fatal"
  keywords, locationStr,       \* main: the resolved keywords and location string
  dryRun,                      \* main: args.dryRun
  geo,                         \* main: the geo profile of the run
  contextOpen,                 \* main: the browser context is launched and not closed
  i,                           \* main: index of the keyword loop (0-based)
  allAds, errors,              \* main: the accumulated records and (keyword, error) pairs
  urls,                        \* the search URLs page.goto was called with, in order
  outcomes,                    \* per processed keyword: did it fail, what was extracted
  console,                     \* the failure lines written to the console
  files,                       \* the written output files, None before
  apc, aads,                   \* aggregation: position, the records given
  atransformed, asummary,      \* aggregation: buildTransformedData's and buildSummary's result
  cli, project, presets        \* main: parseArgs' result, loadProject's result, KEYWORD_PRESETS

gvars == <<gpc, gloc, gres, gtoken>>
evars == <<epc, epage, ekw, eres>>
mvars == <<pc, keywords, locationStr, dryRun, geo, contextOpen, i, allAds, errors,
           urls, outcomes, console, files>>
avars == <<apc, aads, atransformed, asummary>>
cvars == <<cli, project, presets>>
vars == <<gpc, gloc, gres, gtoken, epc, epage, ekw, eres,
          pc, keywords, locationStr, dryRun, geo, contextOpen, i, allAds, errors,
          urls, outcomes, console, files, apc, aads, atransformed, asummary,
          cli, project, presets>>

None == <<>>
Some(x) == <<x>>

(***************************************************************************)
(* String primitives of the JavaScript runtime used by the script.         *)
(***************************************************************************)

\* Longest padded input string; lengths 0 .. MaxLen + 7 are exercised.
MaxLen == 66

UpperCase ==
  <<"A", "B", "C", "D", "E", "F", "G", "H", "I", "J", "K", "L", "M", "N", "O", "P", "Q", "R", "S", "T", "U", "V", "W", "X", "Y", "Z">>

LowerCase ==
  <<"a", "b", "c", "d", "e", "f", "g", "h", "i", "j", "k", "l", "m", "n", "o", "p", "q", "r", "s", "t", "u", "v", "w", "x", "y", "z">>

Digits ==
  <<"0", "1", "2", "3", "4", "5", "6", "7", "8", "9">>

\* Characters String.prototype.trim removes (those that occur in the inputs).
WhiteSpace == {" ", "\t", "\n"}

\* String.prototype.trim: the string without its leading and trailing white
\* space
Trim(s) ==
  LET kept == { k \in 1..Len(s) : s[k] \notin WhiteSpace }
  IN IF kept = {} THEN <<>>
     ELSE SubSeq(s, CHOOSE k \in kept : \A m \in kept : k <= m,
                    CHOOSE k \in kept : \A m \in kept : m <= k)

\* String.prototype.split(','): the segments between the commas, empty
\* segments kept
Split(s) ==
  LET commas == { k \in 1..Len(s) : s[k] = "," }
      \* position of the j-th comma; 0 and Len(s) + 1 bound the string
      CommaAt(j) ==
        IF j = 0 THEN 0
        ELSE IF j > Cardinality(commas) THEN Len(s) + 1
        ELSE CHOOSE k \in commas : Cardinality({ m \in commas : m < k }) = j - 1
  IN [j \in 1..(Cardinality(commas) + 1) |->
        SubSeq(s, CommaAt(j - 1) + 1, CommaAt(j) - 1)]

\* parts.map(s => s.trim())
MapTrim(parts) == [k \in 1..Len(parts) |-> Trim(parts[k])]

\* n copies of the character c
Pad(c, n) == [k \in 1..n |-> c]

(***************************************************************************)
(* Geo profiles                                                            *)
(***************************************************************************)

\* Value of a missing property.
Undefined == "undefined"

\* A member inherited from Object.prototype, read through obj[key]: a
\* function (Object.prototype itself for __proto__), which is truthy and has
\* no own enumerable property.
InheritedMember == "inherited member"

COUNTRY_PROFILES ==
  { [key |-> <<"U", "n", "i", "t", "e", "d", " ", "K", "i", "n", "g", "d", "o", "m">>,
     domain |-> "google.co.uk", gl |-> "uk", locale |-> "en-GB", timezoneId |-> "Europe/London"],
    [key |-> <<"U", "n", "i", "t", "e", "d", " ", "S", "t", "a", "t", "e", "s">>,
     domain |-> "google.com", gl |-> "us", locale |-> "en-US", timezoneId |-> "America/New_York"],
    [key |-> <<"A", "u", "s", "t", "r", "a", "l", "i", "a">>,
     domain |-> "google.com.au", gl |-> "au", locale |-> "en-AU", timezoneId |-> "Australia/Sydney"],
    [key |-> <<"C", "a", "n", "a", "d", "a">>,
     domain |-> "google.ca", gl |-> "ca", locale |-> "en-CA", timezoneId |-> "America/Toronto"] }

US_TIMEZONES ==
  { [key |-> <<"C", "a", "l", "i", "f", "o", "r", "n", "i", "a">>, timezoneId |-> "America/Los_Angeles"],
    [key |-> <<"O", "r", "e", "g", "o", "n">>, timezoneId |-> "America/Los_Angeles"],
    [key |-> <<"N", "e", "w", " ", "Y", "o", "r", "k">>, timezoneId |-> "America/New_York"],
    [key |-> <<"F", "l", "o", "r", "i", "d", "a">>, timezoneId |-> "America/New_York"],
    [key |-> <<"N", "o", "r", "t", "h", " ", "C", "a", "r", "o", "l", "i", "n", "a">>, timezoneId |-> "America/New_York"],
    [key |-> <<"O", "h", "i", "o">>, timezoneId |-> "America/New_York"],
    [key |-> <<"P", "e", "n", "n", "s", "y", "l", "v", "a", "n", "i", "a">>, timezoneId |-> "America/New_York"],
    [key |-> <<"M", "a", "r", "y", "l", "a", "n", "d">>, timezoneId |-> "America/New_York"],
    [key |-> <<"T", "e", "x", "a", "s">>, timezoneId |-> "America/Chicago"] }

UK_TIMEZONES ==
  { [key |-> <<"E", "n", "g", "l", "a", "n", "d">>, timezoneId |-> "Europe/London"],
    [key |-> <<"S", "c", "o", "t", "l", "a", "n", "d">>, timezoneId |-> "Europe/London"],
    [key |-> <<"W", "a", "l", "e", "s">>, timezoneId |-> "Europe/London"] }

\* The tables are object literals, so obj[key] also finds the members every
\* object inherits from Object.prototype.
ObjectPrototypeKeys ==
  { <<"c", "o", "n", "s", "t", "r", "u", "c", "t", "o", "r">>, <<"t", "o", "S", "t", "r", "i", "n", "g">>, <<"t", "o", "L", "o", "c", "a", "l", "e", "S", "t", "r", "i", "n", "g">>, <<"v", "a", "l", "u", "e", "O", "f">>,
    <<"h", "a", "s", "O", "w", "n", "P", "r", "o", "p", "e", "r", "t", "y">>, <<"i", "s", "P", "r", "o", "t", "o", "t", "y", "p", "e", "O", "f">>, <<"p", "r", "o", "p", "e", "r", "t", "y", "I", "s", "E", "n", "u", "m", "e", "r", "a", "b", "l", "e">>,
    <<"_", "_", "p", "r", "o", "t", "o", "_", "_">>, <<"_", "_", "d", "e", "f", "i", "n", "e", "G", "e", "t", "t", "e", "r", "_", "_">>, <<"_", "_", "d", "e", "f", "i", "n", "e", "S", "e", "t", "t", "e", "r", "_", "_">>,
    <<"_", "_", "l", "o", "o", "k", "u", "p", "G", "e", "t", "t", "e", "r", "_", "_">>, <<"_", "_", "l", "o", "o", "k", "u", "p", "S", "e", "t", "t", "e", "r", "_", "_">> }

HasOwn(table, k) == \E e \in table : e.key = k

Own(table, k) == CHOOSE e \in table : e.key = k

\* Is table[k] truthy?
Truthy(table, k) == HasOwn(table, k) \/ k \in ObjectPrototypeKeys

\* The default profile of main: COUNTRY_PROFILES['United Kingdom'], which
\* has neither uule nor locationStr.
UK == <<"U", "n", "i", "t", "e", "d", " ", "K", "i", "n", "g", "d", "o", "m">>

US == <<"U", "n", "i", "t", "e", "d", " ", "S", "t", "a", "t", "e", "s">>

Profile(e) ==
  [domain |-> e.domain, gl |-> e.gl, locale |-> e.locale,
   timezoneId |-> e.timezoneId, uule |-> None, locationStr |-> None]

\* { ...profile } of an inherited member: no property is copied.
EmptyProfile ==
  [domain |-> Undefined, gl |-> Undefined, locale |-> Undefined,
   timezoneId |-> Undefined, uule |-> None, locationStr |-> None]

DefaultProfile == Profile(Own(COUNTRY_PROFILES, UK))

B64 == UpperCase \o LowerCase \o Digits \o <<"-", "_">>

UULE_PREFIX == <<"w", "+", "C", "A", "I", "Q", "I", "C", "I">>

\* A wrapping index in place of the saturating one
LengthCharWrapped(n) == B64[(n % Len(B64)) + 1]

\* B64[n] || B64[B64.length - 1], with JavaScript's 0-based index
LengthChar(n) == IF n + 1 <= Len(B64) THEN B64[n + 1] ELSE B64[Len(B64)]

encodeUULE(canonicalName) ==
  UULE_PREFIX \o <<LengthChar(Len(canonicalName))>> \o canonicalName

\* The token of the trimmed string in place of the string as supplied
GeoTokenTrimmed(locStr) == encodeUULE(Trim(locStr))

\* geo.uule = encodeUULE(locationStr): the string as supplied
GeoToken(locStr) == encodeUULE(locStr)

\* The result null of resolveGeo
Null == [null |-> TRUE]

\* geo.timezoneId after the refinement for US states
RefinedTimezone(country, stateOrRegion, base) ==
  IF /\ country = US
     /\ stateOrRegion # None
     /\ stateOrRegion[1] # <<>>
     /\ Truthy(US_TIMEZONES, stateOrRegion[1])
  THEN IF HasOwn(US_TIMEZONES, stateOrRegion[1])
       THEN Own(US_TIMEZONES, stateOrRegion[1]).timezoneId
       ELSE InheritedMember
  ELSE base

\* locStr (locationStr) is None (absent) or Some(string)
resolveGeo(locStr) ==
  IF locStr = None \/ locStr[1] = <<>> THEN Null
  ELSE
    LET parts == MapTrim(Split(locStr[1]))
        country == parts[Len(parts)]
        stateOrRegion == IF Len(parts) >= 2 THEN Some(parts[Len(parts) - 1]) ELSE None
    IN IF ~Truthy(COUNTRY_PROFILES, country) THEN Null
       ELSE
         LET copy == IF HasOwn(COUNTRY_PROFILES, country)
                    THEN Profile(Own(COUNTRY_PROFILES, country))
                    ELSE EmptyProfile
          IN [copy EXCEPT !.timezoneId = RefinedTimezone(country, stateOrRegion, copy.timezoneId),
                        !.uule = Some(GeoToken(locStr[1])),
                        !.locationStr = locStr]

(***************************************************************************)
(* Inputs of the location resolver                                         *)
(***************************************************************************)

LocationStrings ==
  { <<"L", "o", "n", "d", "o", "n", ",", "E", "n", "g", "l", "a", "n", "d", ",", "U", "n", "i", "t", "e", "d", " ", "K", "i", "n", "g", "d", "o", "m">>,
    <<"E", "d", "i", "n", "b", "u", "r", "g", "h", ",", "S", "c", "o", "t", "l", "a", "n", "d", ",", "U", "n", "i", "t", "e", "d", " ", "K", "i", "n", "g", "d", "o", "m">>,
    <<"L", "e", "e", "d", "s", ",", "Y", "o", "r", "k", "s", "h", "i", "r", "e", ",", "U", "n", "i", "t", "e", "d", " ", "K", "i", "n", "g", "d", "o", "m">>,
    <<"E", "n", "g", "l", "a", "n", "d", ",", "U", "n", "i", "t", "e", "d", " ", "K", "i", "n", "g", "d", "o", "m">>,
    <<"U", "n", "i", "t", "e", "d", " ", "K", "i", "n", "g", "d", "o", "m">>,
    <<"L", "o", "s", " ", "A", "n", "g", "e", "l", "e", "s", ",", "C", "a", "l", "i", "f", "o", "r", "n", "i", "a", ",", "U", "n", "i", "t", "e", "d", " ", "S", "t", "a", "t", "e", "s">>,
    <<"R", "a", "l", "e", "i", "g", "h", ",", "N", "o", "r", "t", "h", " ", "C", "a", "r", "o", "l", "i", "n", "a", ",", "U", "n", "i", "t", "e", "d", " ", "S", "t", "a", "t", "e", "s">>,
    <<"C", "h", "i", "c", "a", "g", "o", ",", "I", "l", "l", "i", "n", "o", "i", "s", ",", "U", "n", "i", "t", "e", "d", " ", "S", "t", "a", "t", "e", "s">>,
    <<"T", "e", "x", "a", "s", ",", "U", "n", "i", "t", "e", "d", " ", "S", "t", "a", "t", "e", "s">>,
    <<"U", "n", "i", "t", "e", "d", " ", "S", "t", "a", "t", "e", "s">>,
    <<" ", "H", "o", "u", "s", "t", "o", "n", " ", ",", " ", "T", "e", "x", "a", "s", " ", ",", " ", "U", "n", "i", "t", "e", "d", " ", "S", "t", "a", "t", "e", "s", " ">>,
    <<"T", "e", "x", "a", "s", ",", "H", "o", "u", "s", "t", "o", "n", ",", "U", "n", "i", "t", "e", "d", " ", "S", "t", "a", "t", "e", "s">>,
    <<"S", "y", "d", "n", "e", "y", ",", "N", "e", "w", " ", "S", "o", "u", "t", "h", " ", "W", "a", "l", "e", "s", ",", "A", "u", "s", "t", "r", "a", "l", "i", "a">>,
    <<"T", "o", "r", "o", "n", "t", "o", ",", "O", "n", "t", "a", "r", "i", "o", ",", "C", "a", "n", "a", "d", "a">>,
    <<"A", "u", "s", "t", "i", "n", ",", "T", "e", "x", "a", "s", ",", "C", "a", "n", "a", "d", "a">>,
    <<"P", "a", "r", "i", "s", ",", "I", "l", "e", "-", "d", "e", "-", "F", "r", "a", "n", "c", "e", ",", "F", "r", "a", "n", "c", "e">>,
    <<"u", "n", "i", "t", "e", "d", " ", "k", "i", "n", "g", "d", "o", "m">>,
    <<"U", "n", "i", "t", "e", "d", " ", "K", "i", "n", "g", "d", "o", "m", ",", "L", "o", "n", "d", "o", "n">>,
    <<"L", "o", "n", "d", "o", "n", ",", "U", "n", "i", "t", "e", "d", " ", "K", "i", "n", "g", "d", "o", "m", ",">>,
    <<",">>,
    <<" ">>,
    <<"c", "o", "n", "s", "t", "r", "u", "c", "t", "o", "r">>,
    <<"R", "e", "n", "o", ",", "t", "o", "S", "t", "r", "i", "n", "g", ",", "U", "n", "i", "t", "e", "d", " ", "S", "t", "a", "t", "e", "s">>,
    <<"R", "e", "n", "o", ",", ",", "U", "n", "i", "t", "e", "d", " ", "S", "t", "a", "t", "e", "s">>,
    <<>> }

PaddedStrings ==
  UNION { { Pad("x", n), Pad("x", n) \o <<",", "C", "a", "n", "a", "d", "a">> } : n \in 0..MaxLen }

LocationInputs ==
  {None} \cup { Some(s) : s \in LocationStrings \cup PaddedStrings }

(***************************************************************************)
(* The location resolver applied to one input                              *)
(***************************************************************************)

GeoIdle ==
  /\ gpc = "idle"
  /\ gloc = None
  /\ gres = Null
  /\ gtoken = None

AggIdle ==
  /\ apc = "idle"
  /\ aads = <<>>
  /\ atransformed = None
  /\ asummary = None

ConfigIdle ==
  /\ cli = Null
  /\ project = Null
  /\ presets = {}

ExtractIdle ==
  /\ epc = "idle"
  /\ epage = <<>>
  /\ ekw = <<>>
  /\ eres = <<>>

MainIdle ==
  /\ pc = "idle"
  /\ keywords = <<>>
  /\ locationStr = None
  /\ dryRun = FALSE
  /\ geo = Null
  /\ contextOpen = FALSE
  /\ i = 0
  /\ allAds = <<>>
  /\ errors = <<>>
  /\ urls = <<>>
  /\ outcomes = <<>>
  /\ console = <<>>
  /\ files = None

GeoInit ==
  /\ gpc = "call"
  /\ gloc \in LocationInputs
  /\ gres = Null
  /\ gtoken = None
  /\ ExtractIdle
  /\ MainIdle
  /\ AggIdle
  /\ ConfigIdle

CallResolveGeo ==
  /\ gpc = "call"
  /\ gres' = resolveGeo(gloc)
  /\ gpc' = "resolved"
  /\ UNCHANGED <<gloc, gtoken>>
  /\ UNCHANGED <<evars, mvars, avars, cvars>>

CallEncodeUULE ==
  /\ gpc = "call"
  /\ gloc # None
  /\ gtoken' = Some(encodeUULE(gloc[1]))
  /\ gpc' = "encoded"
  /\ UNCHANGED <<gloc, gres>>
  /\ UNCHANGED <<evars, mvars, avars, cvars>>

GeoNext == CallResolveGeo \/ CallEncodeUULE

SpecGeo == GeoInit /\ [][GeoNext]_vars


(***************************************************************************)
(* Properties of the location resolver                                     *)
(***************************************************************************)

\* The length marker as the specification words it: the L-th symbol
\* (0-based) of A-Z a-z 0-9 - _, and the last symbol from L = 64 on.
ClaimedMarker(L) ==
  IF L < 26 THEN UpperCase[L + 1]
  ELSE IF L < 52 THEN LowerCase[L - 25]
  ELSE IF L < 62 THEN Digits[L - 51]
  ELSE IF L = 62 THEN "-"
  ELSE "_"

ClaimedToken(S) == <<"w", "+", "C", "A", "I", "Q", "I", "C", "I">> \o <<ClaimedMarker(Len(S))>> \o S

SupportedMarkets == { <<"U", "n", "i", "t", "e", "d", " ", "K", "i", "n", "g", "d", "o", "m">>, <<"U", "n", "i", "t", "e", "d", " ", "S", "t", "a", "t", "e", "s">>, <<"A", "u", "s", "t", "r", "a", "l", "i", "a">>, <<"C", "a", "n", "a", "d", "a">> }

\* The trimmed last segment of a location string
CountryOf(S) == LET parts == Split(S) IN Trim(parts[Len(parts)])

\* The trimmed second-to-last segment of a location string, if there is one
RegionOf(S) ==
  LET parts == Split(S)
  IN IF Len(parts) >= 2 THEN Some(Trim(parts[Len(parts) - 1])) ELSE None

Supplied == gloc # None /\ gloc[1] # <<>>

\* C3: for every string S of length L, encodeUULE(S) is the prefix
\* w+CAIQICI, then one marker character, then S verbatim; the marker is the
\* L-th symbol of the alphabet for L < 64 and '_' for every L >= 64.
C3_TokenLayout ==
  gpc = "encoded" =>
    LET S == gloc[1]
        tok == gtoken[1]
    IN /\ Len(tok) = 9 + 1 + Len(S)
       /\ SubSeq(tok, 1, 9) = <<"w", "+", "C", "A", "I", "Q", "I", "C", "I">>
       /\ tok[10] = ClaimedMarker(Len(S))
       /\ SubSeq(tok, 11, Len(tok)) = S

\* C3 witness: a string of 64 or more characters has been encoded with '_'.
C3_LongStringEncoded ==
  gpc = "encoded" /\ Len(gloc[1]) >= 64 /\ gtoken[1][10] = "_"

\* C4 as claimed: resolveGeo yields the token of every non-empty location
\* string as supplied, whether or not its country is in the table.
C4_TokenForEveryLocation ==
  (gpc = "resolved" /\ Supplied) =>
    (gres # Null /\ gres.uule = Some(ClaimedToken(gloc[1])))

\* C4 as amended: every profile resolveGeo returns carries the token of the
\* location string exactly as supplied (untrimmed); it returns a profile
\* whenever the trimmed country segment is a supported market; and when the
\* country segment is found neither in the table nor among the members the
\* table inherits it returns null, so that no token is produced.
C4_TokenOnlyWhenCountryResolves ==
  gpc = "resolved" =>
    /\ gres # Null =>
         /\ Supplied
         /\ gres.uule = Some(ClaimedToken(gloc[1]))
         /\ gres.locationStr = gloc
    /\ (Supplied /\ CountryOf(gloc[1]) \in SupportedMarkets) => gres # Null
    /\ (Supplied /\ CountryOf(gloc[1]) \notin SupportedMarkets \cup ObjectPrototypeKeys)
         => gres = Null

\* C4 witness: a location with surrounding white space has been resolved,
\* and its token holds the string untrimmed.
C4_UntrimmedResolved ==
  /\ gpc = "resolved"
  /\ gres # Null
  /\ gloc[1] # Trim(gloc[1])
  /\ gres.uule = Some(ClaimedToken(gloc[1]))

\* The timezone the specification gives a supported country and region
ClaimedTimezone(country, region) ==
  IF country = US /\ region # None /\ HasOwn(US_TIMEZONES, region[1])
  THEN Own(US_TIMEZONES, region[1]).timezoneId
  ELSE IF country = UK /\ region # None /\ HasOwn(UK_TIMEZONES, region[1])
       THEN Own(UK_TIMEZONES, region[1]).timezoneId
       ELSE Own(COUNTRY_PROFILES, country).timezoneId

\* C6: for a location whose country is a supported market, domain, region
\* code and locale are those of the country entry, and the timezone is the
\* region's when the region is a known sub-region, else the country's base
\* timezone.
C6_ProfileOfSupportedCountry ==
  (gpc = "resolved" /\ Supplied /\ CountryOf(gloc[1]) \in SupportedMarkets) =>
    LET country == CountryOf(gloc[1])
        entry == Own(COUNTRY_PROFILES, country)
    IN /\ gres # Null
       /\ gres.domain = entry.domain
       /\ gres.gl = entry.gl
       /\ gres.locale = entry.locale
       /\ gres.timezoneId = ClaimedTimezone(country, RegionOf(gloc[1]))

\* C6 on the regions that are not names of inherited object members (not a
\* claim of its own: the part of C6 the code does satisfy).
C6_ExceptInheritedRegions ==
  (/\ gpc = "resolved"
   /\ Supplied
   /\ RegionOf(gloc[1]) # None
   /\ RegionOf(gloc[1])[1] \in ObjectPrototypeKeys) \/ C6_ProfileOfSupportedCountry

(***************************************************************************)
(* Ad extraction                                                           *)
(*                                                                         *)
(* A page is the sequence, in document order, of the elements that could   *)
(* hold an ad.  Of each element the model keeps what extractAds reads:     *)
(*   marked       it carries the data-text-ad attribute                    *)
(*   adsRegion    it lies in a role="region" whose heading reads "Ads"     *)
(*   headings     its descendants matching [role="heading"], h3 in         *)
(*                document order, each with its kind and textContent       *)
(*   inTads       it has an ancestor-or-self #tads                         *)
(*   inBottomads  it has an ancestor-or-self #bottomads                    *)
(*   top          getBoundingClientRect().top                              *)
(***************************************************************************)

\* Largest number of elements on a page
MaxAds == 2

\* The vertical offset beyond which an ad outside both wrappers is 'bottom'
BottomThreshold == 600

ToLowerChar(c) ==
  IF \E k \in 1..Len(UpperCase) : UpperCase[k] = c
  THEN LowerCase[CHOOSE k \in 1..Len(UpperCase) : UpperCase[k] = c]
  ELSE c

\* String.prototype.toLowerCase
ToLowerCase(s) == [k \in 1..Len(s) |-> ToLowerChar(s[k])]

skipLabels ==
  { <<>>, <<"a", "d", "s">>, <<"s", "p", "o", "n", "s", "o", "r", "e", "d">>, <<"s", "p", "o", "n", "s", "o", "r", "e", "d", " ", "r", "e", "s", "u", "l", "t", "s">>, <<"s", "p", "o", "n", "s", "o", "r", "e", "d", " ", "r", "e", "s", "u", "l", "t">>,
    <<"h", "i", "d", "e", " ", "s", "p", "o", "n", "s", "o", "r", "e", "d", " ", "r", "e", "s", "u", "l", "t", "s">>, <<"h", "i", "d", "e", " ", "s", "p", "o", "n", "s", "o", "r", "e", "d", " ", "r", "e", "s", "u", "l", "t">> }

\* The first of three strategies that finds an element (the marker, an
\* "Ads" region, any h3 heading) in place of the marker alone
AdElementsWithFallback(page) ==
  IF SelectSeq(page, LAMBDA el : el.marked) # <<>>
  THEN SelectSeq(page, LAMBDA el : el.marked)
  ELSE IF SelectSeq(page, LAMBDA el : el.adsRegion) # <<>>
       THEN SelectSeq(page, LAMBDA el : el.adsRegion)
       ELSE SelectSeq(page, LAMBDA el : el.headings # <<>> /\ el.headings[1].kind = "h3")

\* document.querySelectorAll('[data-text-ad]'): the marked elements, in
\* document order
AdElements(page) == SelectSeq(page, LAMBDA el : el.marked)

\* adEl.querySelector('[role="heading"], h3'): the first match, if any
HeadingEl(adEl) == IF adEl.headings = <<>> THEN None ELSE Some(adEl.headings[1])

\* The stoplist alone, without the titles seen before
RejectedLabelsOnly(title, seenTitles) == ToLowerCase(title) \in skipLabels

\* The title is skipped: a label of the stoplist, or seen before on the page
Rejected(title, seenTitles) ==
  ToLowerCase(title) \in skipLabels \/ title \in seenTitles

\* The offset compared with >= in place of >
BlockPosAtThreshold(adEl) ==
  IF adEl.inBottomads THEN "bottom"
  ELSE IF ~adEl.inTads
       THEN IF adEl.top >= BottomThreshold THEN "bottom" ELSE "top"
       ELSE "top"

\* blockPos of one ad element
BlockPos(adEl) ==
  IF adEl.inBottomads THEN "bottom"
  ELSE IF ~adEl.inTads
       THEN IF adEl.top > BottomThreshold THEN "bottom" ELSE "top"
       ELSE "top"

\* position of the ad element with forEach index idx (0-based)
Position(idx) == idx + 1

\* s.startsWith(p)
StartsWith(s, p) == Len(s) >= Len(p) /\ SubSeq(s, 1, Len(p)) = p

\* s.includes(p)
Includes(s, p) ==
  \E k \in 1..(Len(s) - Len(p) + 1) : SubSeq(s, k, k + Len(p) - 1) = p

\* The origin of the document the extractor runs in
DocumentOrigin == <<"h", "t", "t", "p", "s", ":", "/", "/", "w", "w", "w", ".", "g", "o", "o", "g", "l", "e", ".", "c", "o", ".", "u", "k">>

\* a.href of an anchor: the href attribute resolved against the document,
\* the empty string when the anchor has no href attribute.  Absolute href
\* attributes of the model are written as the browser serialises them.
Href(a) ==
  IF a.href = None THEN <<>>
  ELSE IF StartsWith(a.href[1], <<"h", "t", "t", "p", ":", "/", "/">>) \/ StartsWith(a.href[1], <<"h", "t", "t", "p", "s", ":", "/", "/">>)
       THEN a.href[1]
       ELSE IF StartsWith(a.href[1], <<"/">>)
            THEN DocumentOrigin \o a.href[1]
            ELSE DocumentOrigin \o <<"/">> \o a.href[1]

\* The indices of the anchors of the container that a selector matches:
\* a[data-pcu], a[data-rw], a[href*="aclk"], a[href^="http"]
MatchingAnchors(adEl, selector) ==
  { k \in 1..Len(adEl.anchors) :
      LET a == adEl.anchors[k]
      IN CASE selector = "pcu" -> a.pcu # None
           [] selector = "rw" -> a.rw
           [] selector = "aclk" -> a.href # None /\ Includes(a.href[1], <<"a", "c", "l", "k">>)
           [] selector = "http" -> a.href # None /\ StartsWith(a.href[1], <<"h", "t", "t", "p">>) }

\* querySelector: index of the first of the matching anchors in document
\* order, 0 when there is none (null)
FirstAnchor(matching) ==
  IF matching = {} THEN 0
  ELSE CHOOSE k \in matching : \A j \in matching : k <= j

\* headingEl.closest('a[href]'): the innermost anchor with an href attribute
\* around the heading, the last one opened in document order
ClosestAnchor(adEl) ==
  LET Encl(a) == a.wrapsTitle /\ a.href # None
  IN IF \E k \in 1..Len(adEl.anchors) : Encl(adEl.anchors[k])
     THEN CHOOSE k \in 1..Len(adEl.anchors) :
            /\ Encl(adEl.anchors[k])
            /\ \A j \in (k + 1)..Len(adEl.anchors) : ~Encl(adEl.anchors[j])
     ELSE 0

\* The first anchor in document order that any of the selectors matches
AdLinkInDocumentOrder(adEl) ==
  FirstAnchor(MatchingAnchors(adEl, "pcu") \cup MatchingAnchors(adEl, "rw")
                \cup { k \in 1..Len(adEl.anchors) :
                         adEl.anchors[k].wrapsTitle /\ adEl.anchors[k].href # None }
                \cup MatchingAnchors(adEl, "aclk") \cup MatchingAnchors(adEl, "http"))

\* adLink: index of the anchor the || chain gives, 0 for null
AdLink(adEl) ==
  LET byPcu == FirstAnchor(MatchingAnchors(adEl, "pcu"))
      byRw == FirstAnchor(MatchingAnchors(adEl, "rw"))
      byClosest == ClosestAnchor(adEl)
      byAclk == FirstAnchor(MatchingAnchors(adEl, "aclk"))
      byHttp == FirstAnchor(MatchingAnchors(adEl, "http"))
  IN IF byPcu # 0 THEN byPcu
     ELSE IF byRw # 0 THEN byRw
     ELSE IF byClosest # 0 THEN byClosest
     ELSE IF byAclk # 0 THEN byAclk
     ELSE byHttp

\* link = adLink.getAttribute('data-pcu') || adLink.href, '' without adLink
Link(adEl) ==
  LET adLink == AdLink(adEl)
  IN IF adLink = 0 THEN <<>>
     ELSE LET a == adEl.anchors[adLink]
          IN IF a.pcu # None /\ a.pcu[1] # <<>> THEN a.pcu[1] ELSE Href(a)

\* Index of the first of the characters of stops in s, Len(s) + 1 if none
FirstOf(s, stops) ==
  IF \E k \in 1..Len(s) : s[k] \in stops
  THEN CHOOSE k \in 1..Len(s) : s[k] \in stops /\ \A j \in 1..(k - 1) : s[j] \notin stops
  ELSE Len(s) + 1

\* new URL(link).hostname for http and https links (host in lower case,
\* without the port); None when new URL throws: no scheme, or no host
Hostname(link) ==
  LET rest == IF StartsWith(link, <<"h", "t", "t", "p", "s", ":", "/", "/">>) THEN Some(SubSeq(link, 9, Len(link)))
              ELSE IF StartsWith(link, <<"h", "t", "t", "p", ":", "/", "/">>) THEN Some(SubSeq(link, 8, Len(link)))
              ELSE None
  IN IF rest = None THEN None
     ELSE LET host == SubSeq(rest[1], 1, FirstOf(rest[1], {"/", "?", "#", ":"}) - 1)
          IN IF host = <<>> THEN None ELSE Some(ToLowerCase(host))

\* The link itself where it has no hostname
DomainOrLink(link) == IF Hostname(link) = None THEN link ELSE Hostname(link)[1]

\* let domain = ''; try { domain = new URL(ad.link).hostname } catch {}
Domain(link) == IF Hostname(link) = None THEN <<>> ELSE Hostname(link)[1]

\* The indices of idxs in ascending order: the elements a forEach keeps
SelectIndices(idxs) ==
  [r \in 1..Cardinality(idxs) |->
     CHOOSE k \in idxs : Cardinality({ j \in idxs : j < k }) = r - 1]

\* displayedLink: the text of the cite element, else of the first span
\* that looks like a URL
DisplayedLink(adEl) ==
  IF adEl.cite # None THEN Trim(adEl.cite[1])
  ELSE LET UrlLike(n) ==
             LET t == Trim(n.text)
             IN /\ n.tag = "span"
                /\ \/ StartsWith(t, <<"h", "t", "t", "p", "s", ":", "/", "/">>)
                   \/ StartsWith(t, <<"h", "t", "t", "p", ":", "/", "/">>)
                   \/ StartsWith(t, <<"w", "w", "w", ".">>)
                /\ Len(t) < 120
                /\ ~Includes(t, <<" ">>)
           spans == SelectSeq(adEl.nodes, UrlLike)
       IN IF spans = <<>> THEN <<>> ELSE Trim(spans[1].text)

\* descCandidates before the sort: the trimmed texts of the div and span
\* elements of the container that pass the filter, in document order
DescCandidates(adEl, title) ==
  LET Candidate(n) ==
        LET t == Trim(n.text)
        IN /\ Len(t) > 40
           /\ t # title
           /\ ~StartsWith(t, <<"h", "t", "t", "p">>)
           /\ ~Includes(t, <<"W", "h", "y", " ", "t", "h", "i", "s", " ", "a", "d">>)
           /\ ~Includes(t, <<"H", "i", "d", "e", " ", "s", "p", "o", "n", "s", "o", "r", "e", "d">>)
           /\ ~n.inRoleHeading
           /\ ~n.hasRoleHeading
      kept == SelectSeq(adEl.nodes, Candidate)
  IN [k \in 1..Len(kept) |-> Trim(kept[k].text)]

\* cands.sort((a, b) => b.length - a.length): longest first, candidates of
\* equal length keep their order (the sort is stable)
SortByLengthDesc(cands) ==
  LET Rank(k) == Cardinality({ j \in 1..Len(cands) : Len(cands[j]) > Len(cands[k]) })
                 + Cardinality({ j \in 1..(k - 1) : Len(cands[j]) = Len(cands[k]) }) + 1
  IN [r \in 1..Len(cands) |-> cands[CHOOSE k \in 1..Len(cands) : Rank(k) = r]]

\* The longest candidate, whatever its length
DescriptionLongest(adEl, title) ==
  LET sorted == SortByLengthDesc(DescCandidates(adEl, title))
  IN IF sorted = <<>> THEN <<>> ELSE sorted[1]

\* description = descCandidates.find(d => d.length < 500) || descCandidates[0]
Description(adEl, title) ==
  LET sorted == SortByLengthDesc(DescCandidates(adEl, title))
      under == SelectSeq(sorted, LAMBDA d : Len(d) < 500)
  IN IF sorted = <<>> THEN <<>>
     ELSE IF under # <<>> THEN under[1] ELSE sorted[1]

\* The href of the anchor a list member is or holds, '' when it has none
MemberLink(adEl, m) == IF m.anchor = 0 THEN <<>> ELSE Href(adEl.anchors[m.anchor])

\* textContent of a list member: of the anchor itself, or of the li
MemberText(adEl, m) == IF m.tag = "A" THEN adEl.anchors[m.anchor].text ELSE m.text

\* The entries the first ul or [role="list"] of the container gives: one
\* for every li and every a inside it that passes the filter
ListSitelinks(adEl, title) ==
  IF adEl.list = None THEN <<>>
  ELSE LET members == adEl.list[1]
           Keep(k) == LET text == Trim(MemberText(adEl, members[k]))
                      IN text # <<>> /\ Len(text) < 60 /\ text # title
           kept == SelectIndices({ k \in 1..Len(members) : Keep(k) })
       IN [r \in 1..Len(kept) |->
             [title |-> Trim(MemberText(adEl, members[kept[r]])),
              link |-> MemberLink(adEl, members[kept[r]])]]

\* The fallback: the anchors with an href attribute that pass the filter
AnchorSitelinks(adEl, title, adLink) ==
  LET Keep(k) == LET a == adEl.anchors[k]
                     text == Trim(a.text)
                 IN /\ a.href # None
                    /\ text # <<>> /\ Len(text) > 3 /\ Len(text) < 50
                    /\ text # title
                    /\ ~StartsWith(text, <<"h", "t", "t", "p">>)
                    /\ k # adLink
      kept == SelectIndices({ k \in 1..Len(adEl.anchors) : Keep(k) })
  IN [r \in 1..Len(kept) |->
        [title |-> Trim(adEl.anchors[kept[r]].text), link |-> Href(adEl.anchors[kept[r]])]]

Sitelinks(adEl, title, adLink) ==
  IF ListSitelinks(adEl, title) # <<>>
  THEN ListSitelinks(adEl, title)
  ELSE AnchorSitelinks(adEl, title, adLink)

\* extensions: texts of the [role="listitem"] and .YhemCb elements
Extensions(adEl, title) ==
  LET Keep(k) == LET t == Trim(adEl.exts[k])
                 IN t # <<>> /\ Len(t) < 80 /\ t # title
      kept == SelectIndices({ k \in 1..Len(adEl.exts) : Keep(k) })
  IN [r \in 1..Len(kept) |-> Trim(adEl.exts[kept[r]])]

\* adElements.forEach((adEl, idx) => ...): k is idx + 1
RECURSIVE ForEachAd(_, _, _, _)
ForEachAd(adElements, k, results, seenTitles) ==
  IF k > Len(adElements) THEN results
  ELSE
    LET adEl == adElements[k]
        headingEl == HeadingEl(adEl)
    IN IF headingEl = None
       THEN ForEachAd(adElements, k + 1, results, seenTitles)
       ELSE
         LET title == Trim(headingEl[1].text)
         IN IF Rejected(title, seenTitles)
            THEN ForEachAd(adElements, k + 1, results, seenTitles)
            ELSE ForEachAd(adElements, k + 1,
                           Append(results, [title |-> title,
                                            link |-> Link(adEl),
                                            displayed_link |-> DisplayedLink(adEl),
                                            description |-> Description(adEl, title),
                                            sitelinks |-> Sitelinks(adEl, title, AdLink(adEl)),
                                            extensions |-> Extensions(adEl, title),
                                            position |-> Position(k - 1),
                                            block_position |-> BlockPos(adEl)]),
                           seenTitles \cup {title})

\* The records page.evaluate returns
EvaluateAds(page) == ForEachAd(AdElements(page), 1, <<>>, {})

\* ads.map(ad => ({ keyword, ... })): the normalised records
Normalize(ads, keyword) ==
  [k \in 1..Len(ads) |->
     [keyword |-> keyword,
      position |-> ads[k].position,
      block_position |-> ads[k].block_position,
      relative_block_position |-> ads[k].block_position,
      title |-> ads[k].title,
      link |-> ads[k].link,
      domain |-> Domain(ads[k].link),
      displayed_link |-> ads[k].displayed_link,
      description |-> ads[k].description,
      sitelinks |-> ads[k].sitelinks,
      extensions |-> ads[k].extensions,
      source |-> "playwright"]]

extractAds(page, keyword) == Normalize(EvaluateAds(page), keyword)

(***************************************************************************)
(* Pages given to the extractor                                            *)
(***************************************************************************)

Heading(kind, text) == [kind |-> kind, text |-> text]

HeadingChoices ==
  { <<>>,
    <<Heading("role", <<"F", "i", "x">>)>>,
    <<Heading("role", <<" ", "F", "i", "x", "\n">>)>>,
    <<Heading("h3", <<"f", "i", "x">>)>>,
    <<Heading("role", <<"S", "p", "o", "n", "s", "o", "r", "e", "d">>)>>,
    <<Heading("h3", <<" ", "A", "D", "S", " ">>)>>,
    <<Heading("role", <<" ", " ">>)>> }

\* Wrapper membership and vertical offset of an element
Placements ==
  { [inTads |-> TRUE, inBottomads |-> FALSE, top |-> BottomThreshold + 100],
    [inTads |-> FALSE, inBottomads |-> TRUE, top |-> 0],
    [inTads |-> TRUE, inBottomads |-> TRUE, top |-> 0],
    [inTads |-> FALSE, inBottomads |-> FALSE, top |-> BottomThreshold],
    [inTads |-> FALSE, inBottomads |-> FALSE, top |-> BottomThreshold + 1] }

Element(marked, adsRegion, headings, place) ==
  [marked |-> marked, adsRegion |-> adsRegion, headings |-> headings,
   inTads |-> place.inTads, inBottomads |-> place.inBottomads, top |-> place.top,
   anchors |-> <<>>, cite |-> None, nodes |-> <<>>, list |-> None, exts |-> <<>>]

MarkedElements ==
  { Element(TRUE, FALSE, h, p) : h \in HeadingChoices, p \in Placements }

\* Elements without the ad marker: in an "Ads" region, or a bare h3 result
UnmarkedElements ==
  { Element(FALSE, r, h, [inTads |-> FALSE, inBottomads |-> FALSE, top |-> 0]) :
      r \in BOOLEAN,
      h \in { <<>>, <<Heading("h3", <<"F", "i", "x">>)>>, <<Heading("role", <<"S", "p", "o", "n", "s", "o", "r", "e", "d">>)>> } }

Elements == MarkedElements \cup UnmarkedElements

Pages == UNION { [1..n -> Elements] : n \in 0..MaxAds }

ExtractKeywords == { <<"k", " ", "1">> }

ExtractInit ==
  /\ epc = "call"
  /\ epage \in Pages
  /\ ekw \in ExtractKeywords
  /\ eres = <<>>
  /\ GeoIdle
  /\ MainIdle
  /\ AggIdle
  /\ ConfigIdle

CallExtractAds ==
  /\ epc = "call"
  /\ eres' = extractAds(epage, ekw)
  /\ epc' = "returned"
  /\ UNCHANGED <<epage, ekw>>
  /\ UNCHANGED <<gvars, mvars, avars, cvars>>

ExtractNext == CallExtractAds

SpecExtract == ExtractInit /\ [][ExtractNext]_vars

(***************************************************************************)
(* Containers given to the extractor for the fields of a record            *)
(***************************************************************************)

Anchor(pcu, rw, href, wrapsTitle, text) ==
  [pcu |-> pcu, rw |-> rw, href |-> href, wrapsTitle |-> wrapsTitle, text |-> text]

AnchorChoices ==
  { Anchor(Some(<<"h", "t", "t", "p", "s", ":", "/", "/", "A", ".", "i", "o", ":", "8", "0", "8", "0", "/", "p">>), TRUE, Some(<<"/", "a", "c", "l", "k", "?", "1">>), FALSE, <<"A">>),
    Anchor(Some(<<>>), FALSE, Some(<<"h", "t", "t", "p", "s", ":", "/", "/", "b", ".", "i", "o", "/", "x">>), FALSE, <<"B">>),
    Anchor(Some(<<"e", ".", "i", "o">>), FALSE, None, FALSE, <<"E">>),
    Anchor(None, TRUE, Some(<<"/", "a", "c", "l", "k", "?", "2">>), FALSE, <<"R">>),
    Anchor(None, TRUE, None, FALSE, <<"R">>),
    Anchor(None, FALSE, Some(<<"h", "t", "t", "p", "s", ":", "/", "/", "c", ".", "i", "o", "/">>), TRUE, <<"F", "i", "x">>),
    Anchor(None, FALSE, Some(<<"/", "a", "c", "l", "k", "?", "3">>), FALSE, <<"T">>),
    Anchor(None, FALSE, Some(<<"h", "t", "t", "p", "s", ":", "/", "/", "d", ".", "i", "o", "/", "?", "q">>), FALSE, <<"D">>),
    Anchor(None, FALSE, Some(<<"#", "t", "o", "p">>), FALSE, <<"t", "o", "p">>) }

AnchorLists ==
  {<<>>} \cup { <<a>> : a \in AnchorChoices }
         \cup { <<a, b>> : a \in AnchorChoices, b \in AnchorChoices }

\* A marked container in the top wrapper
FieldElement(headings, anchors) ==
  [Element(TRUE, FALSE, headings,
           [inTads |-> TRUE, inBottomads |-> FALSE, top |-> 0])
   EXCEPT !.anchors = anchors]

LinkElements ==
  { FieldElement(<<Heading("role", <<"F", "i", "x">>)>>, as) : as \in AnchorLists }

\* A div or span of the container: its text content, whether it is inside
\* a [role="heading"] element and whether it holds one; likewise for an h3
Node(tag, text, inRoleHeading, hasRoleHeading) ==
  [tag |-> tag, text |-> text,
   inRoleHeading |-> inRoleHeading, hasRoleHeading |-> hasRoleHeading,
   inH3 |-> FALSE, hasH3 |-> FALSE]

\* A div or span inside an h3, or holding one
H3Node(tag, text, inH3, hasH3) ==
  [Node(tag, text, FALSE, FALSE) EXCEPT !.inH3 = inH3, !.hasH3 = hasH3]

NodeChoices ==
  { Node("div", Pad("a", 40), FALSE, FALSE),
    Node("div", <<" ">> \o Pad("b", 41) \o <<"\n">>, FALSE, FALSE),
    Node("span", Pad("c", 41), FALSE, FALSE),
    Node("span", Pad("d", 499), FALSE, FALSE),
    Node("div", Pad("e", 500), FALSE, FALSE),
    Node("div", Pad("f", 600), FALSE, FALSE),
    Node("span", <<"h", "t", "t", "p", "s", ":", "/", "/", "a", ".", "i", "o", "/">> \o Pad("g", 40), FALSE, FALSE),
    Node("span", <<"w", "w", "w", ".", "a", ".", "i", "o">>, FALSE, FALSE),
    Node("div", Pad("h", 40) \o <<" ", "W", "h", "y", " ", "t", "h", "i", "s", " ", "a", "d", "?">>, FALSE, FALSE),
    Node("span", Pad("i", 45), TRUE, FALSE),
    Node("div", <<"F", "i", "x", " ">> \o Pad("j", 450), FALSE, TRUE) }

NodeLists ==
  {<<>>} \cup { <<n>> : n \in NodeChoices }
         \cup { <<n, m>> : n \in NodeChoices, m \in NodeChoices }
         \cup { <<Node("div", Pad("f", 600), FALSE, FALSE), n,
                  Node("span", Pad("c", 41), FALSE, FALSE)>> : n \in NodeChoices }

LongTitle == Pad("t", 41)

DescriptionElements ==
  { [FieldElement(<<Heading("role", <<"F", "i", "x">>)>>, <<>>) EXCEPT !.nodes = ns] :
      ns \in NodeLists }
  \cup
  { [FieldElement(<<Heading("h3", LongTitle)>>, <<>>)
       EXCEPT !.nodes = <<H3Node("div", LongTitle, FALSE, TRUE)>> \o ns,
              !.cite = Some(<<" ", "a", ".", "i", "o", " ", "\n">>)] :
      ns \in { <<>>, <<H3Node("div", LongTitle \o <<" ">> \o Pad("c", 41), FALSE, TRUE)>>,
               <<Node("span", Pad("c", 41), FALSE, FALSE)>> } }
  \cup
  { [FieldElement(<<Heading("h3", <<"F", "i", "x", " ">> \o Pad("x", 45))>>, <<>>)
       EXCEPT !.nodes = <<H3Node("span", Pad("x", 45), TRUE, FALSE)>>] }

\* A member of the list of a container, as querySelectorAll('li, a') gives
\* it: an li with its text and the index of the first anchor inside it (0
\* if none), or an anchor, inside an li or not
Li(text, anchor) == [tag |-> "LI", text |-> text, anchor |-> anchor, inLi |-> FALSE]
ListAnchor(anchor, inLi) == [tag |-> "A", text |-> <<>>, anchor |-> anchor, inLi |-> inLi]

SiteAnchor(href, text) == Anchor(None, FALSE, href, FALSE, text)

SitelinkAnchorChoices ==
  { SiteAnchor(Some(<<"h", "t", "t", "p", "s", ":", "/", "/", "a", ".", "i", "o", "/", "p">>), <<" ", "P", "r", "i", "c", "i", "n", "g", " ">>),
    SiteAnchor(Some(<<"h", "t", "t", "p", "s", ":", "/", "/", "a", ".", "i", "o", "/", "3">>), <<"F", "A", "Q">>),
    SiteAnchor(Some(<<"h", "t", "t", "p", "s", ":", "/", "/", "a", ".", "i", "o", "/", "4">>), <<"J", "o", "b", "s">>),
    SiteAnchor(Some(<<"h", "t", "t", "p", "s", ":", "/", "/", "a", ".", "i", "o", "/", "4", "9">>), Pad("s", 49)),
    SiteAnchor(Some(<<"h", "t", "t", "p", "s", ":", "/", "/", "a", ".", "i", "o", "/", "5", "0">>), Pad("s", 50)),
    SiteAnchor(Some(<<"h", "t", "t", "p", "s", ":", "/", "/", "a", ".", "i", "o", "/", "5", "9">>), Pad("s", 59)),
    SiteAnchor(Some(<<"h", "t", "t", "p", "s", ":", "/", "/", "a", ".", "i", "o", "/", "6", "0">>), Pad("s", 60)),
    SiteAnchor(Some(<<"h", "t", "t", "p", "s", ":", "/", "/", "a", ".", "i", "o", "/", "f">>), <<"F", "i", "x">>),
    SiteAnchor(Some(<<"h", "t", "t", "p", "s", ":", "/", "/", "a", ".", "i", "o", "/", "u">>), <<"h", "t", "t", "p", "s", ":", "/", "/", "a", ".", "i", "o">>),
    SiteAnchor(None, <<"C", "o", "n", "t", "a", "c", "t", " ", "u", "s">>),
    Anchor(Some(<<"h", "t", "t", "p", "s", ":", "/", "/", "a", ".", "i", "o", "/">>), TRUE, Some(<<"/", "a", "c", "l", "k", "?", "1">>), TRUE, <<"F", "i", "x", " ", "i", "t", " ", "n", "o", "w">>) }

SitelinkAnchorLists ==
  { <<a>> : a \in SitelinkAnchorChoices }
  \cup { <<a, b>> : a \in SitelinkAnchorChoices, b \in SitelinkAnchorChoices }

\* Lists over the anchors as: each anchor in an li of its own; the anchors
\* directly in a [role="list"] element; li elements without anchors
ListsOver(as) ==
  { None,
    Some([k \in 1..(2 * Len(as)) |->
            IF k % 2 = 1 THEN Li(as[(k + 1) \div 2].text, (k + 1) \div 2)
                         ELSE ListAnchor(k \div 2, TRUE)]),
    Some([k \in 1..Len(as) |-> ListAnchor(k, FALSE)]),
    Some([k \in 1..Len(as) |-> Li(as[k].text, 0)]) }

SitelinkElements ==
  UNION { { [FieldElement(<<Heading("role", <<"F", "i", "x">>)>>, as)
               EXCEPT !.list = l, !.exts = <<as[1].text>>] : l \in ListsOver(as) } :
          as \in SitelinkAnchorLists }

\* Sparse containers: no heading, a label for a heading, no ad marker
SparseElements ==
  { FieldElement(h, as) :
      h \in { <<>>, <<Heading("role", <<" ">>)>>, <<Heading("h3", <<"A", "d", "s">>)>> },
      as \in { <<>>, <<Anchor(Some(<<"e", ".", "i", "o">>), FALSE, None, FALSE, <<"E">>)>> } }
  \cup
  { [FieldElement(<<Heading("h3", <<"F", "i", "x">>)>>,
                  <<SiteAnchor(Some(<<"h", "t", "t", "p", "s", ":", "/", "/", "a", ".", "i", "o", "/">>), <<"F", "i", "x">>)>>)
       EXCEPT !.marked = FALSE] }

\* Containers with a heading-role element and an h3, in both document orders
MixedHeadingElements ==
  { FieldElement(hs, <<>>) :
      hs \in { <<Heading("role", <<" ", "F", "i", "x", " ">>), Heading("h3", <<"O", "l", "d">>)>>,
               <<Heading("h3", <<" ", "O", "l", "d", " ">>), Heading("role", <<"F", "i", "x">>)>>,
               <<Heading("h3", <<"A", "d", "s">>), Heading("role", <<"F", "i", "x">>)>>,
               <<Heading("h3", <<"O", "l", "d">>), Heading("h3", <<"O", "l", "d", "e", "r">>)>> } }

FieldElements ==
  LinkElements \cup DescriptionElements \cup SitelinkElements \cup SparseElements
    \cup MixedHeadingElements

\* Pages of one container, and the page without any
FieldPages == {<<>>} \cup { <<el>> : el \in FieldElements }

FieldInit ==
  /\ epc = "call"
  /\ epage \in FieldPages
  /\ ekw \in ExtractKeywords
  /\ eres = <<>>
  /\ GeoIdle
  /\ MainIdle
  /\ AggIdle
  /\ ConfigIdle

SpecFields == FieldInit /\ [][ExtractNext]_vars

(***************************************************************************)
(* Properties of the ad extractor                                          *)
(***************************************************************************)

\* The elements of the page that carry the ad marker, in document order
Marked == SelectSeq(epage, LAMBDA el : el.marked)

\* The trimmed heading text of an element that has a heading
TitleOf(el) == Trim(el.headings[1].text)

\* C7: within each block the positions of the returned records are
\* 1, 2, 3, ... without gaps, also when containers were rejected and when
\* the page has a top and a bottom block.
C7_PositionsDenseWithinBlock ==
  epc = "returned" =>
    \A b \in {"top", "bottom"} :
      LET inBlock == SelectSeq(eres, LAMBDA ad : ad.block_position = b)
      IN \A k \in 1..Len(inBlock) : inBlock[k].position = k

\* What the code gives instead (not a claim of its own): position is the
\* 1-based index of the container among all marked elements of the page.
C7_PositionIsPageIndex ==
  epc = "returned" =>
    \A a \in 1..Len(eres) :
      /\ eres[a].position \in 1..Len(Marked)
      /\ Marked[eres[a].position].headings # <<>>
      /\ TitleOf(Marked[eres[a].position]) = eres[a].title

C8_StopList ==
  { <<>>, <<"a", "d", "s">>, <<"s", "p", "o", "n", "s", "o", "r", "e", "d">>, <<"s", "p", "o", "n", "s", "o", "r", "e", "d", " ", "r", "e", "s", "u", "l", "t", "s">>, <<"s", "p", "o", "n", "s", "o", "r", "e", "d", " ", "r", "e", "s", "u", "l", "t">>,
    <<"h", "i", "d", "e", " ", "s", "p", "o", "n", "s", "o", "r", "e", "d", " ", "r", "e", "s", "u", "l", "t", "s">>, <<"h", "i", "d", "e", " ", "s", "p", "o", "n", "s", "o", "r", "e", "d", " ", "r", "e", "s", "u", "l", "t">> }

\* C8: no two records of one extractAds call have the same title - of the
\* containers with one title only the first in document order yields a
\* record - and no record has a title that is, ignoring case, in the
\* stoplist.
C8_TitlesUniqueNoLabels ==
  epc = "returned" =>
    /\ \A a, b \in 1..Len(eres) : a # b => eres[a].title # eres[b].title
    /\ \A a \in 1..Len(eres) : ToLowerCase(eres[a].title) \notin C8_StopList
    /\ \A a \in 1..Len(eres) :
         \A k \in 1..Len(Marked) :
           (Marked[k].headings # <<>> /\ TitleOf(Marked[k]) = eres[a].title)
             => eres[a].position <= k

\* C8 witness: two containers with the same title text, which is no label,
\* gave exactly one record, the one of the first container.
C8_DuplicateDropped ==
  /\ epc = "returned"
  /\ Len(Marked) = 2
  /\ Marked[1].headings # <<>>
  /\ Marked[2].headings # <<>>
  /\ TitleOf(Marked[1]) = TitleOf(Marked[2])
  /\ Len(eres) = 1
  /\ eres[1].position = 1

\* The containers as the claim has them located: by the first strategy that
\* finds one - the ad marker, then the "Ads" regions, then h3 headings.
ClaimedContainers(page) ==
  IF \E k \in 1..Len(page) : page[k].marked
  THEN SelectSeq(page, LAMBDA el : el.marked)
  ELSE IF \E k \in 1..Len(page) : page[k].adsRegion
       THEN SelectSeq(page, LAMBDA el : el.adsRegion)
       ELSE SelectSeq(page, LAMBDA el : el.headings # <<>> /\ el.headings[1].kind = "h3")

\* C9 as claimed: when no element carries the ad marker the containers are
\* located by the next strategy, so the records are those of the containers
\* the first successful strategy finds.
C9_NextStrategyWhenNoMarker ==
  epc = "returned" =>
    eres = Normalize(ForEachAd(ClaimedContainers(epage), 1, <<>>, {}), ekw)

\* C9 as amended: extractAds locates the containers by the ad marker alone.
\* Every record is that of an element carrying the marker (its position the
\* rank of the element among the marked ones), and a page without marked
\* element gives no record, whatever "Ads" regions or h3 headings it has;
\* so the containers of one page come from a single strategy.
C9_MarkerIsTheOnlyStrategy ==
  epc = "returned" =>
    /\ (\A k \in 1..Len(epage) : ~epage[k].marked) => eres = <<>>
    /\ \A a \in 1..Len(eres) :
         \E k \in 1..Len(epage) :
           /\ epage[k].marked
           /\ epage[k].headings # <<>>
           /\ TitleOf(epage[k]) = eres[a].title
           /\ Cardinality({ m \in 1..k : epage[m].marked }) = eres[a].position

\* C9 witness: a page without marked element, with an element in an "Ads"
\* region whose heading is a valid title, gave no record.
C9_RegionWithoutMarkerIgnored ==
  /\ epc = "returned"
  /\ \A k \in 1..Len(epage) : ~epage[k].marked
  /\ \E k \in 1..Len(epage) :
       /\ epage[k].adsRegion
       /\ epage[k].headings # <<>>
       /\ ToLowerCase(TitleOf(epage[k])) \notin C8_StopList
  /\ eres = <<>>

\* C10: ancestry decides first - inside the bottom-ads wrapper an ad is
\* 'bottom', else inside the top-ads wrapper it is 'top', whatever its offset;
\* in neither wrapper it is 'bottom' exactly when its offset is beyond 600.
\* Every block position is 'top' or 'bottom'.
C10_BlockByAncestryThenOffset ==
  epc = "returned" =>
    \A a \in 1..Len(eres) :
      LET el == Marked[eres[a].position]
          block == eres[a].block_position
      IN /\ block \in {"top", "bottom"}
         /\ el.inBottomads => block = "bottom"
         /\ (el.inTads /\ ~el.inBottomads) => block = "top"
         /\ (~el.inTads /\ ~el.inBottomads) => (block = "bottom" <=> el.top > 600)

\* C10 witness: an ad in the top wrapper far down the page is 'top', and an
\* ad outside both wrappers at offset 600 exactly is 'top' as well.
C10_WrapperBeatsOffset ==
  /\ epc = "returned"
  /\ Len(eres) = 2
  /\ LET el1 == Marked[eres[1].position]
         el2 == Marked[eres[2].position]
     IN /\ el1.inTads /\ ~el1.inBottomads /\ el1.top > 600
        /\ eres[1].block_position = "top"
        /\ ~el2.inTads /\ ~el2.inBottomads /\ el2.top = 600
        /\ eres[2].block_position = "top"

(***************************************************************************)
(* main: the run of the scraper                                            *)
(***************************************************************************)

\* Longest keyword list of a run
MaxKeywords == 2

\* Characters encodeURIComponent leaves as they are
Unreserved ==
  { UpperCase[k] : k \in 1..Len(UpperCase) } \cup { LowerCase[k] : k \in 1..Len(LowerCase) }
    \cup { Digits[k] : k \in 1..Len(Digits) }
    \cup { "-", "_", ".", "!", "~", "*", "'", "(", ")" }

\* The escape of a reserved character (those that occur in the inputs)
PercentCode(c) ==
  IF c = " " THEN <<"%", "2", "0">>
  ELSE IF c = "," THEN <<"%", "2", "C">>
  ELSE IF c = "+" THEN <<"%", "2", "B">>
  ELSE IF c = "\n" THEN <<"%", "0", "A">>
  ELSE IF c = "\t" THEN <<"%", "0", "9">>
  ELSE <<"%", "3", "F">>

\* encodeURIComponent: every reserved character replaced by its escape
encodeURIComponent(s) ==
  LET reserved == { k \in 1..Len(s) : s[k] \notin Unreserved }
      enc(k) == IF k \in reserved THEN PercentCode(s[k]) ELSE <<s[k]>>
      \* number of output characters before those of s[k]
      start(k) == (k - 1) + 2 * Cardinality({ m \in reserved : m < k })
  IN [j \in 1..(Len(s) + 2 * Cardinality(reserved)) |->
        LET k == CHOOSE k \in 1..Len(s) : start(k) < j /\ j <= start(k) + Len(enc(k))
        IN enc(k)[j - start(k)]]

\* The search URL of one keyword: https://<domain>/search?q=..&gl=..&hl=en
\* and, when the profile has a token, &uule=..
SearchUrl(g, kw) ==
  [domain |-> g.domain,
   q |-> encodeURIComponent(kw),
   gl |-> g.gl,
   hl |-> "en",
   uule |-> IF g.uule # None THEN Some(encodeURIComponent(g.uule[1])) ELSE None]

\* resolveGeo(locationStr) || COUNTRY_PROFILES['United Kingdom']
GeoOrDefault(loc) == IF resolveGeo(loc) # Null THEN resolveGeo(loc) ELSE DefaultProfile

\* An assignment in place of the push
PushAdsReplacing(all, ads) == ads

\* allAds.push(...ads)
PushAds(all, ads) == all \o ads

\* The list holding the latest failure alone
PushErrorLatest(errs, kw, message) == <<[keyword |-> kw, error |-> message]>>

\* errors.push({ keyword: kw, error: err.message })
PushError(errs, kw, message) == Append(errs, [keyword |-> kw, error |-> message])

\* An object built from {} is the sequence of its own properties
\* [key, value] in the order in which they were created.
OwnIndex(obj, key) ==
  IF \E k \in 1..Len(obj) : obj[k].key = key
  THEN CHOOSE k \in 1..Len(obj) : obj[k].key = key
  ELSE 0

\* A key that is an array index: the decimal form of a natural number
IsIndexKey(key) ==
  /\ Len(key) \in 1..9
  /\ \A k \in 1..Len(key) : \E d \in 1..Len(Digits) : Digits[d] = key[k]
  /\ Len(key) = 1 \/ key[1] # "0"

DigitValue(c) == (CHOOSE d \in 1..Len(Digits) : Digits[d] = c) - 1

RECURSIVE IndexValue(_)
IndexValue(key) ==
  IF key = <<>> THEN 0
  ELSE 10 * IndexValue(SubSeq(key, 1, Len(key) - 1)) + DigitValue(key[Len(key)])

\* Object.entries(obj): the array-index keys in ascending order, then the
\* other keys in order of creation
Entries(obj) ==
  LET idx == { k \in 1..Len(obj) : IsIndexKey(obj[k].key) }
      Rank(k) ==
        IF k \in idx
        THEN Cardinality({ j \in idx : IndexValue(obj[j].key) < IndexValue(obj[k].key) }) + 1
        ELSE Cardinality(idx) + Cardinality({ j \in 1..(k - 1) : j \notin idx }) + 1
  IN [r \in 1..Len(obj) |-> obj[CHOOSE k \in 1..Len(obj) : Rank(k) = r]]

\* The outcome of a call that threw
Threw == [threw |-> TRUE]

\* if (!obj[key]) obj[key] = []; obj[key].push(ad): for a key the object
\* inherits from Object.prototype obj[key] is that member, which is truthy
\* and has no push, and the call throws a TypeError
GroupPush(obj, key, ad) ==
  IF OwnIndex(obj, key) # 0
  THEN [threw |-> FALSE,
        obj |-> [obj EXCEPT ![OwnIndex(obj, key)].value = Append(@, ad)]]
  ELSE IF key \in ObjectPrototypeKeys
       THEN Threw
       ELSE [threw |-> FALSE, obj |-> Append(obj, [key |-> key, value |-> <<ad>>])]

\* allAds.forEach(ad => ...): k is the index of the next record
RECURSIVE GroupAll(_, _, _, _)
GroupAll(ads, k, competitors, kws) ==
  IF k > Len(ads) THEN [threw |-> FALSE, competitors |-> competitors, keywords |-> kws]
  ELSE LET byDomain == GroupPush(competitors, ads[k].domain, ads[k])
       IN IF byDomain.threw THEN Threw
          ELSE LET byKeyword == GroupPush(kws, ads[k].keyword, ads[k])
               IN IF byKeyword.threw THEN Threw
                  ELSE GroupAll(ads, k + 1, byDomain.obj, byKeyword.obj)

RECURSIVE SumOf(_)
SumOf(positions) ==
  IF positions = <<>> THEN 0 ELSE positions[1] + SumOf(Tail(positions))

\* The mean in tenths, the fraction cut off
AvgPositionTruncated(positions) == (10 * SumOf(positions)) \div Len(positions)

\* Math.round((sum / positions.length) * 10) / 10, in tenths: Math.round
\* gives the nearest integer, the upper one of two equally near
AvgPosition(positions) ==
  (20 * SumOf(positions) + Len(positions)) \div (2 * Len(positions))

\* stats[domain]
DomainStats(domainAds) ==
  [total_ads |-> Len(domainAds),
   keywords_targeted |-> Cardinality({ domainAds[k].keyword : k \in 1..Len(domainAds) }),
   avg_position |-> AvgPosition([k \in 1..Len(domainAds) |-> domainAds[k].position]),
   titles |-> [k \in 1..Len(domainAds) |-> domainAds[k].title],
   descriptions |-> [k \in 1..Len(SelectSeq(domainAds, LAMBDA ad : ad.description # <<>>)) |->
                       SelectSeq(domainAds, LAMBDA ad : ad.description # <<>>)[k].description]]

\* The object buildTransformedData returns, or Threw.  avg_position is in
\* tenths (23 for 2.3).
buildTransformedData(ads) ==
  LET grouped == GroupAll(ads, 1, <<>>, <<>>)
  IN IF grouped.threw THEN Threw
     ELSE LET competitors == Entries(grouped.competitors)
              kws == Entries(grouped.keywords)
              stats == [k \in 1..Len(competitors) |->
                          [key |-> competitors[k].key,
                           value |-> DomainStats(competitors[k].value)]]
          IN [threw |-> FALSE,
              metadata |-> [source |-> "playwright",
                            total_ads |-> Len(ads),
                            unique_domains |-> Len(competitors),
                            unique_keywords |-> Len(kws)],
              competitors |-> competitors,
              keywords |-> kws,
              statistics |-> [total_ads |-> Len(ads),
                              unique_domains |-> Len(competitors),
                              unique_keywords |-> Len(kws),
                              competitors |-> stats]]

\* The entries in the order they have
EntriesAsCreated(entries) == entries

\* entries.sort((a, b) => b[1].total_ads - a[1].total_ads): most ads first,
\* entries with equally many ads keep their order (the sort is stable)
SortByTotalAds(entries) ==
  LET Rank(k) ==
        Cardinality({ j \in 1..Len(entries) :
                        entries[j].value.total_ads > entries[k].value.total_ads })
        + Cardinality({ j \in 1..(k - 1) :
                          entries[j].value.total_ads = entries[k].value.total_ads }) + 1
  IN [r \in 1..Len(entries) |-> entries[CHOOSE k \in 1..Len(entries) : Rank(k) = r]]

\* \w of a regular expression
WordChars ==
  { UpperCase[k] : k \in 1..Len(UpperCase) } \cup { LowerCase[k] : k \in 1..Len(LowerCase) }
    \cup { Digits[k] : k \in 1..Len(Digits) } \cup {"_"}

DigitChars == { Digits[k] : k \in 1..Len(Digits) }

\* \b before position k of s (k in 1..Len(s) + 1)
WordBoundary(s, k) ==
  (k - 1 >= 1 /\ s[k - 1] \in WordChars) # (k <= Len(s) /\ s[k] \in WordChars)

\* w occurs in s at position k
At(s, w, k) == k >= 1 /\ k + Len(w) - 1 <= Len(s) /\ SubSeq(s, k, k + Len(w) - 1) = w

\* /\bw\b/ matches s
IncludesWord(s, w) ==
  \E k \in 1..Len(s) : At(s, w, k) /\ WordBoundary(s, k) /\ WordBoundary(s, k + Len(w))

IncludesAny(s, ws) == \E w \in ws : Includes(s, w)

\* . of a regular expression: any character but a line terminator
Dot(c) == c \notin {"\n", "\r"}

\* The names of the patterns, in the order of the array
PatternNames ==
  << "Pricing/cost", "Urgency/speed", "Social proof", "CQC/regulation", "Local/geographic" >>

\* The regular expression of the pattern of the name matches s, letters
\* matching in lower case only
RegexTest(name, s) ==
     CASE name = "Pricing/cost" ->
            \/ Includes(s, <<"£">>)
            \/ Includes(s, <<"$">>)
            \/ \E k \in 1..Len(s) :
                 /\ At(s, <<"f", "r", "o", "m">>, k) /\ WordBoundary(s, k) /\ WordBoundary(s, k + 4)
                 /\ \E d \in (k + 4)..Len(s) :
                      s[d] \in DigitChars /\ \A j \in (k + 4)..(d - 1) : Dot(s[j])
            \/ IncludesAny(s, { <<"p", "r", "i", "c", "e">>, <<"c", "o", "s", "t">>, <<"f", "r", "e", "e">> })
       [] name = "Urgency/speed" ->
            \/ IncludesAny(s, { <<"u", "r", "g", "e", "n", "t">>, <<"e", "m", "e", "r", "g", "e", "n", "c", "y">>, <<"i", "m", "m", "e", "d", "i", "a", "t", "e">>,
                                <<"t", "o", "d", "a", "y">>, <<"q", "u", "i", "c", "k">>, <<"f", "a", "s", "t">> })
            \/ \E k \in 1..Len(s) :
                 /\ At(s, <<"2", "4">>, k)
                 /\ \/ At(s, <<"h">>, k + 2)
                    \/ (k + 2 <= Len(s) /\ Dot(s[k + 2]) /\ At(s, <<"h">>, k + 3))
       [] name = "Social proof" ->
            \E k \in 1..Len(s) : \E j \in (k + 1)..Len(s) :
              /\ s[k] \in DigitChars
              /\ \A m \in (k + 1)..(j - 1) : s[m] \in WhiteSpace \/ (m = k + 1 /\ s[m] = "+")
              /\ \E w \in { <<"c", "a", "r", "e", "r">>, <<"y", "e", "a", "r">>, <<"r", "e", "v", "i", "e", "w">>, <<"c", "l", "i", "e", "n", "t">>,
                            <<"s", "t", "a", "r">>, <<"r", "a", "t", "e", "d">>, <<"a", "w", "a", "r", "d">>, <<"t", "r", "u", "s", "t">> } : At(s, w, j)
       [] name = "CQC/regulation" ->
            IncludesAny(s, { <<"c", "q", "c">>, <<"r", "e", "g", "u", "l", "a", "t">>, <<"r", "e", "g", "i", "s", "t", "e", "r", "e", "d">>,
                             <<"i", "n", "s", "p", "e", "c", "t", "e", "d">>, <<"v", "e", "r", "i", "f", "i", "e", "d">> })
       [] name = "Local/geographic" ->
            \/ IncludesWord(s, <<"l", "o", "c", "a", "l">>)
            \/ Includes(s, <<"n", "e", "a", "r", " ", "m", "e">>)
            \/ IncludesWord(s, <<"n", "e", "a", "r", "b", "y">>)

\* The patterns matching in the case they are written in
PatternTestCaseSensitive(name, text) == RegexTest(name, text)

\* p.regex.test(text) for the pattern of the name; the regular expressions
\* have the flag i and ignore case
PatternTest(name, text) == RegexTest(name, ToLowerCase(text))

\* The elements of seq as they are, repeated ones kept
WithRepeats(seq) == seq

\* The elements of seq, each once, in order of first occurrence:
\* [...new Set(seq)]
Distinct(seq) ==
  LET first == { k \in 1..Len(seq) : \A m \in 1..(k - 1) : seq[m] # seq[k] }
  IN [j \in 1..Cardinality(first) |->
        seq[CHOOSE k \in first : Cardinality({ m \in first : m < k }) = j - 1]]

\* allText: for every domain of sorted its titles, then its descriptions
RECURSIVE AllText(_)
AllText(sorted) ==
  IF sorted = <<>> THEN <<>>
  ELSE LET domain == sorted[1].key
           st == sorted[1].value
       IN [k \in 1..Len(st.titles) |-> [domain |-> domain, text |-> st.titles[k]]]
            \o [k \in 1..Len(st.descriptions) |->
                  [domain |-> domain, text |-> st.descriptions[k]]]
            \o AllText(Tail(sorted))

\* a.text.slice(0, 60)
Slice60(text) == SubSeq(text, 1, IF Len(text) < 60 THEN Len(text) ELSE 60)

\* A row for every pattern, also for one without a match
RECURSIVE PatternRowsForAll(_, _)
PatternRowsForAll(allText, p) ==
  IF p > Len(PatternNames) THEN <<>>
  ELSE LET matches == SelectSeq(allText, LAMBDA t : PatternTest(PatternNames[p], t.text))
           shown == SubSeq(matches, 1, IF Len(matches) < 2 THEN Len(matches) ELSE 2)
       IN << [kind |-> "pattern",
              name |-> PatternNames[p],
              examples |-> [k \in 1..Len(shown) |-> Slice60(shown[k].text)],
              who |-> [k \in 1..Len(matches) |-> matches[k].domain]] >>
          \o PatternRowsForAll(allText, p + 1)

\* The rows of the "Messaging Patterns" table
RECURSIVE PatternRows(_, _)
PatternRows(allText, p) ==
  IF p > Len(PatternNames) THEN <<>>
  ELSE LET matches == SelectSeq(allText, LAMBDA t : PatternTest(PatternNames[p], t.text))
           shown == SubSeq(matches, 1, IF Len(matches) < 2 THEN Len(matches) ELSE 2)
       IN (IF Len(matches) > 0
           THEN << [kind |-> "pattern",
                    name |-> PatternNames[p],
                    examples |-> [k \in 1..Len(shown) |-> Slice60(shown[k].text)],
                    who |-> Distinct([k \in 1..Len(matches) |-> matches[k].domain])] >>
           ELSE <<>>)
          \o PatternRows(allText, p + 1)

\* The lines of the "Ads by Keyword" section
RECURSIVE KeywordSections(_)
KeywordSections(kws) ==
  IF kws = <<>> THEN <<>>
  ELSE LET kw == kws[1].key
           kwAds == kws[1].value
       IN <<[kind |-> "keyword", keyword |-> kw, count |-> Len(kwAds)]>>
            \o [k \in 1..Len(kwAds) |->
                  [kind |-> "ad", keyword |-> kw,
                   position |-> kwAds[k].position, domain |-> kwAds[k].domain,
                   title |-> kwAds[k].title, description |-> kwAds[k].description,
                   extensions |-> kwAds[k].extensions,
                   sitelinks |-> [n \in 1..Len(kwAds[k].sitelinks) |->
                                    kwAds[k].sitelinks[n].title]]]
            \o KeywordSections(Tail(kws))

\* The lines of the report that depend on the run: the header, the summary
\* table, the competitor table, the ads by keyword and the pattern table.
\* The report is composed from the transformed data, the keyword list and
\* the geo profile; the list of failures is not among its arguments.
buildSummary(transformed, keywordList, geoInfo) ==
  LET sorted == SortByTotalAds(Entries(transformed.statistics.competitors))
  IN << [kind |-> "source", domain |-> geoInfo.domain],
        [kind |-> "location", location |-> geoInfo.locationStr],
        [kind |-> "keywords", keywords |-> keywordList],
        [kind |-> "total", count |-> transformed.metadata.total_ads],
        [kind |-> "domains", count |-> transformed.metadata.unique_domains],
        [kind |-> "scraped", count |-> transformed.metadata.unique_keywords] >>
       \o [k \in 1..Len(sorted) |->
             [kind |-> "competitor", domain |-> sorted[k].key,
              total_ads |-> sorted[k].value.total_ads,
              keywords_targeted |-> sorted[k].value.keywords_targeted,
              avg_position |-> sorted[k].value.avg_position]]
       \o KeywordSections(Entries(transformed.keywords))
       \o PatternRows(AllText(sorted), 1)

\* The closing console listing of the failed keywords
FailureListing(errs) ==
  [k \in 1..Len(errs) |->
     [kind |-> "failed", keyword |-> errs[k].keyword, error |-> errs[k].error]]

KeywordChoices == { <<"k", " ", "1">>, <<"c", "o", "n", "s", "t", "r", "u", "c", "t", "o", "r">> }

KeywordLists == UNION { [1..n -> KeywordChoices] : n \in 1..MaxKeywords }

MainLocations ==
  { None,
    Some(<<"L", "o", "n", "d", "o", "n", ",", "E", "n", "g", "l", "a", "n", "d", ",", "U", "n", "i", "t", "e", "d", " ", "K", "i", "n", "g", "d", "o", "m">>),
    Some(<<" ", "H", "o", "u", "s", "t", "o", "n", " ", ",", " ", "T", "e", "x", "a", "s", " ", ",", " ", "U", "n", "i", "t", "e", "d", " ", "S", "t", "a", "t", "e", "s", " ">>),
    Some(<<"P", "a", "r", "i", "s", ",", "I", "l", "e", "-", "d", "e", "-", "F", "r", "a", "n", "c", "e", ",", "F", "r", "a", "n", "c", "e">>),
    Some(<<"c", "o", "n", "s", "t", "r", "u", "c", "t", "o", "r">>) }

ErrorMessages == { "Timeout 20000ms exceeded", "net::ERR_ABORTED" }

\* Where the processing of a keyword can throw before its records are pushed
FailureStages == { "goto", "waitForSelector", "extractAds" }

AdMarked(headings, inTads, inBottomads, top) ==
  Element(TRUE, FALSE, headings,
          [inTads |-> inTads, inBottomads |-> inBottomads, top |-> top])

\* The result pages of the run: no element; an "Ads" region without marked
\* element; one ad; a label and two ads, one of them at the bottom
MainPages ==
  { <<>>,
    <<Element(FALSE, TRUE, <<Heading("h3", <<"F", "i", "x">>)>>,
              [inTads |-> FALSE, inBottomads |-> FALSE, top |-> 0])>>,
    <<AdMarked(<<Heading("role", <<"F", "i", "x">>)>>, TRUE, FALSE, 100)>>,
    <<AdMarked(<<Heading("role", <<"S", "p", "o", "n", "s", "o", "r", "e", "d">>)>>, TRUE, FALSE, 80),
      AdMarked(<<Heading("role", <<"T", "a", "p">>)>>, TRUE, FALSE, 100),
      AdMarked(<<Heading("h3", <<"F", "i", "x">>)>>, FALSE, TRUE, 900)>> }

\* if (!locationStr): the location is absent or the empty string
Falsy(loc) == loc = None \/ loc[1] = <<>>

\* KEYWORD_PRESETS[args.client] || {}: the own entry of the client; a
\* member inherited from Object.prototype has neither keywords nor location
Preset(table, client) ==
  IF HasOwn(table, client) THEN Own(table, client)
  ELSE [key |-> client, keywords |-> None, location |-> None]

\* The location with the preset consulted before the project
ResolvedLocationPresetFirst(args, proj, preset) ==
  IF ~Falsy(args.location) THEN args.location
  ELSE IF ~Falsy(preset.location) THEN preset.location
  ELSE IF args.project # None THEN proj.location
  ELSE None

\* locationStr after lines 491-507: the flag, else the project's location
\* if a project is given, else the preset's
ResolvedLocation(args, proj, preset) ==
  LET fromArgs == args.location
      fromProject == IF args.project # None /\ Falsy(fromArgs) THEN proj.location
                     ELSE fromArgs
  IN IF Falsy(fromProject) THEN preset.location ELSE fromProject

\* keywords after lines 490-506; an array, also an empty one, is truthy
ResolvedKeywords(args, proj, preset) ==
  LET fromArgs == args.keywords
      fromProject == IF args.project # None /\ fromArgs = None THEN proj.keywords
                     ELSE fromArgs
  IN IF fromProject = None THEN preset.keywords ELSE fromProject

\* parsed.keywords = args[++i].split(',').map(k => k.trim())
ParseKeywords(raw) == IF raw = None THEN None ELSE Some(MapTrim(Split(raw[1])))

\* What parseArgs returns for a command line
Args(client, rawKeywords, location, projectId, isDryRun) ==
  [client |-> client, keywords |-> ParseKeywords(rawKeywords), location |-> location,
   project |-> projectId, dryRun |-> isDryRun]

CommandLines ==
  { Args(c, k, l, p, d) :
      c \in { None, Some(<<"a", "c", "m", "e">>) },
      k \in { None, Some(<<"k", " ", "1">>), Some(<<"k", " ", "1", ",", " ", "c", "o", "n", "s", "t", "r", "u", "c", "t", "o", "r">>) },
      l \in { None, Some(<<>>), Some(<<"L", "o", "n", "d", "o", "n", ",", "E", "n", "g", "l", "a", "n", "d", ",", "U", "n", "i", "t", "e", "d", " ", "K", "i", "n", "g", "d", "o", "m">>),
              Some(<<"P", "a", "r", "i", "s", ",", "I", "l", "e", "-", "d", "e", "-", "F", "r", "a", "n", "c", "e", ",", "F", "r", "a", "n", "c", "e">>) },
      p \in { None, Some(<<"p", "r", "o", "j", "_", "1">>) },
      d \in BOOLEAN }

\* What loadProject returns: null, or the entry of projects_list.json
Projects ==
  { Null } \cup
  { [keywords |-> k, location |-> l] :
      k \in { None, Some(<<>>), Some(<< <<"k", " ", "1">> >>) },
      l \in { None, Some(<<" ", "H", "o", "u", "s", "t", "o", "n", " ", ",", " ", "T", "e", "x", "a", "s", " ", ",", " ", "U", "n", "i", "t", "e", "d", " ", "S", "t", "a", "t", "e", "s", " ">>),
              Some(<<"P", "a", "r", "i", "s", ",", "I", "l", "e", "-", "d", "e", "-", "F", "r", "a", "n", "c", "e", ",", "F", "r", "a", "n", "c", "e">>) } }

\* KEYWORD_PRESETS: empty as it is in the source, or with an entry added
PresetTables ==
  { {},
    { [key |-> <<"a", "c", "m", "e">>, keywords |-> Some(<< <<"c", "o", "n", "s", "t", "r", "u", "c", "t", "o", "r">> >>),
       location |-> Some(<<"L", "o", "n", "d", "o", "n", ",", "E", "n", "g", "l", "a", "n", "d", ",", "U", "n", "i", "t", "e", "d", " ", "K", "i", "n", "g", "d", "o", "m">>)] },
    { [key |-> <<"a", "c", "m", "e">>, keywords |-> None,
       location |-> Some(<<"L", "o", "n", "d", "o", "n", ",", "E", "n", "g", "l", "a", "n", "d", ",", "U", "n", "i", "t", "e", "d", " ", "K", "i", "n", "g", "d", "o", "m">>)] } }

ConfigInit ==
  /\ pc = "args"
  /\ cli \in CommandLines
  /\ project \in Projects
  /\ cli.project = None => project = Null
  /\ presets \in PresetTables
  /\ keywords = <<>>
  /\ locationStr = None
  /\ dryRun = FALSE
  /\ geo = Null
  /\ contextOpen = FALSE
  /\ i = 0
  /\ allAds = <<>>
  /\ errors = <<>>
  /\ urls = <<>>
  /\ outcomes = <<>>
  /\ console = <<>>
  /\ files = None
  /\ GeoIdle
  /\ ExtractIdle
  /\ AggIdle

\* No client name: usage, process.exit(1)
UsageExit ==
  /\ pc = "args"
  /\ cli.client = None
  /\ pc' = "exit"
  /\ UNCHANGED <<keywords, locationStr, dryRun, geo, contextOpen, i, allAds, errors,
                 urls, outcomes, console, files>>
  /\ UNCHANGED <<gvars, evars, avars, cvars>>

\* --project names a project loadProject does not find: process.exit(1)
ProjectNotFound ==
  /\ pc = "args"
  /\ cli.client # None
  /\ cli.project # None
  /\ project = Null
  /\ pc' = "exit"
  /\ UNCHANGED <<keywords, locationStr, dryRun, geo, contextOpen, i, allAds, errors,
                 urls, outcomes, console, files>>
  /\ UNCHANGED <<gvars, evars, avars, cvars>>

\* The sources are there: the project if one is named
SourcesLoaded ==
  /\ pc = "args"
  /\ cli.client # None
  /\ cli.project # None => project # Null

\* No source has keywords, or the list is empty: process.exit(1)
NoKeywords ==
  /\ SourcesLoaded
  /\ LET kws == ResolvedKeywords(cli, project, Preset(presets, cli.client[1]))
     IN IF kws = None THEN TRUE ELSE kws[1] = <<>>
  /\ pc' = "exit"
  /\ UNCHANGED <<keywords, locationStr, dryRun, geo, contextOpen, i, allAds, errors,
                 urls, outcomes, console, files>>
  /\ UNCHANGED <<gvars, evars, avars, cvars>>

\* Keywords and location are resolved
Configured ==
  /\ SourcesLoaded
  /\ LET kws == ResolvedKeywords(cli, project, Preset(presets, cli.client[1]))
     IN /\ kws # None
        /\ kws[1] # <<>>
        /\ keywords' = kws[1]
  /\ locationStr' = ResolvedLocation(cli, project, Preset(presets, cli.client[1]))
  /\ dryRun' = cli.dryRun
  /\ pc' = "start"
  /\ UNCHANGED <<geo, contextOpen, i, allAds, errors, urls, outcomes, console, files>>
  /\ UNCHANGED <<gvars, evars, avars, cvars>>

MainInit ==
  /\ pc = "start"
  /\ keywords \in KeywordLists
  /\ locationStr \in MainLocations
  /\ dryRun \in BOOLEAN
  /\ geo = Null
  /\ contextOpen = FALSE
  /\ i = 0
  /\ allAds = <<>>
  /\ errors = <<>>
  /\ urls = <<>>
  /\ outcomes = <<>>
  /\ console = <<>>
  /\ files = None
  /\ GeoIdle
  /\ ExtractIdle
  /\ AggIdle
  /\ ConfigIdle

\* The geo profile is resolved; a dry run ends here.
DryRun ==
  /\ pc = "start"
  /\ dryRun
  /\ geo' = GeoOrDefault(locationStr)
  /\ pc' = "done"
  /\ UNCHANGED <<keywords, locationStr, dryRun, contextOpen, i, allAds, errors,
                 urls, outcomes, console, files>>
  /\ UNCHANGED <<gvars, evars, avars, cvars>>

\* The geo profile is resolved and the browser context launched.
Launch ==
  /\ pc = "start"
  /\ ~dryRun
  /\ geo' = GeoOrDefault(locationStr)
  /\ contextOpen' = TRUE
  /\ allAds' = <<>>
  /\ errors' = <<>>
  /\ pc' = "home"
  /\ UNCHANGED <<keywords, locationStr, dryRun, i, urls, outcomes, console, files>>
  /\ UNCHANGED <<gvars, evars, avars, cvars>>

\* The home page loads (the cookie dialog is accepted or absent).
HomeLoaded ==
  /\ pc = "home"
  /\ i' = 0
  /\ pc' = "loop"
  /\ UNCHANGED <<keywords, locationStr, dryRun, geo, contextOpen, allAds, errors,
                 urls, outcomes, console, files>>
  /\ UNCHANGED <<gvars, evars, avars, cvars>>

\* The navigation to the home page throws: the context is closed in the
\* finally block and main rejects.
HomeFails ==
  /\ pc = "home"
  /\ contextOpen' = FALSE
  /\ pc' = "fatal"
  /\ UNCHANGED <<keywords, locationStr, dryRun, geo, i, allAds, errors,
                 urls, outcomes, console, files>>
  /\ UNCHANGED <<gvars, evars, avars, cvars>>

\* One keyword: navigation, the wait for results or the extraction throws.
KeywordFails ==
  /\ pc = "loop"
  /\ i < Len(keywords)
  /\ \E stage \in FailureStages, message \in ErrorMessages :
       LET kw == keywords[i + 1]
       IN /\ urls' = Append(urls, SearchUrl(geo, kw))
          /\ errors' = PushError(errors, kw, message)
          /\ console' = Append(console, [kind |-> "error", keyword |-> kw, error |-> message])
          /\ outcomes' = Append(outcomes, [failed |-> TRUE, stage |-> stage, ads |-> <<>>])
  /\ i' = i + 1
  /\ UNCHANGED <<pc, keywords, locationStr, dryRun, geo, contextOpen, allAds, files>>
  /\ UNCHANGED <<gvars, evars, avars, cvars>>

\* One keyword: the page is extracted and its records pushed; with no record
\* the debug capture (screenshots, page structure) is taken as well.
KeywordExtracted ==
  /\ pc = "loop"
  /\ i < Len(keywords)
  /\ \E page \in MainPages :
       LET kw == keywords[i + 1]
           ads == extractAds(page, kw)
       IN /\ urls' = Append(urls, SearchUrl(geo, kw))
          /\ allAds' = PushAds(allAds, ads)
          /\ outcomes' = Append(outcomes, [failed |-> FALSE, stage |-> "end", ads |-> ads])
  /\ i' = i + 1
  /\ UNCHANGED <<pc, keywords, locationStr, dryRun, geo, contextOpen, errors, console, files>>
  /\ UNCHANGED <<gvars, evars, avars, cvars>>

\* One keyword: no record is extracted and the debug capture throws.
KeywordDebugFails ==
  /\ pc = "loop"
  /\ i < Len(keywords)
  /\ \E page \in MainPages, message \in ErrorMessages :
       LET kw == keywords[i + 1]
           ads == extractAds(page, kw)
       IN /\ Len(ads) = 0
          /\ urls' = Append(urls, SearchUrl(geo, kw))
          /\ allAds' = PushAds(allAds, ads)
          /\ errors' = PushError(errors, kw, message)
          /\ console' = Append(console, [kind |-> "error", keyword |-> kw, error |-> message])
          /\ outcomes' = Append(outcomes, [failed |-> TRUE, stage |-> "debug", ads |-> ads])
  /\ i' = i + 1
  /\ UNCHANGED <<pc, keywords, locationStr, dryRun, geo, contextOpen, files>>
  /\ UNCHANGED <<gvars, evars, avars, cvars>>

\* After the last keyword: the context is closed, the outputs are built and
\* written, and the failed keywords are listed on the console.
Finish ==
  /\ pc = "loop"
  /\ i = Len(keywords)
  /\ ~buildTransformedData(allAds).threw
  /\ contextOpen' = FALSE
  /\ files' = Some([raw |-> allAds,
                    data |-> buildTransformedData(allAds),
                    summary |-> buildSummary(buildTransformedData(allAds), keywords, geo)])
  /\ console' = console \o FailureListing(errors)
  /\ pc' = "done"
  /\ UNCHANGED <<keywords, locationStr, dryRun, geo, i, allAds, errors, urls, outcomes>>
  /\ UNCHANGED <<gvars, evars, avars, cvars>>

\* The loop is over and the context closed, but buildTransformedData
\* throws: main's promise rejects before a file is written.
FinishThrows ==
  /\ pc = "loop"
  /\ i = Len(keywords)
  /\ buildTransformedData(allAds).threw
  /\ contextOpen' = FALSE
  /\ pc' = "fatal"
  /\ UNCHANGED <<keywords, locationStr, dryRun, geo, i, allAds, errors,
                 urls, outcomes, console, files>>
  /\ UNCHANGED <<gvars, evars, avars, cvars>>

Next ==
  \/ DryRun
  \/ Launch
  \/ HomeLoaded
  \/ HomeFails
  \/ KeywordFails
  \/ KeywordExtracted
  \/ KeywordDebugFails
  \/ Finish
  \/ FinishThrows

Spec == MainInit /\ [][Next]_vars

\* main from the command line to the launch of the browser
ConfigNext ==
  \/ UsageExit
  \/ ProjectNotFound
  \/ NoKeywords
  \/ Configured
  \/ DryRun
  \/ Launch

SpecConfig == ConfigInit /\ [][ConfigNext]_vars

(***************************************************************************)
(* Properties of the run                                                   *)
(***************************************************************************)

\* The records of the keywords processed so far that did not fail,
\* concatenated in keyword order
RECURSIVE SucceededAds(_)
SucceededAds(n) ==
  IF n = 0 THEN <<>>
  ELSE SucceededAds(n - 1) \o (IF outcomes[n].failed THEN <<>> ELSE outcomes[n].ads)

\* C1: a keyword that fails leaves the records accumulated so far unchanged
\* and the loop goes on with the next keyword; after the loop the collection
\* is the concatenation, in keyword order, of the records of the keywords
\* that succeeded, and every keyword has been processed in order.
C1_FailureIsolated ==
  /\ [][(pc = "loop" /\ errors' # errors) =>
          (allAds' = allAds /\ pc' = "loop" /\ i' = i + 1)]_vars
  /\ [](pc = "loop" => allAds = SucceededAds(Len(outcomes)))
  /\ []((pc = "done" /\ ~dryRun) =>
          /\ allAds = SucceededAds(Len(keywords))
          /\ Len(outcomes) = Len(keywords)
          /\ Len(urls) = Len(keywords)
          /\ \A k \in 1..Len(keywords) : urls[k].q = encodeURIComponent(keywords[k])
          /\ files[1].raw = allAds)

\* C1 witness: the first keyword failed, the second gave records, and the run
\* ended with the records of the second.
C1_SuccessAfterFailure ==
  /\ pc = "done"
  /\ Len(keywords) = 2
  /\ Len(outcomes) = 2
  /\ outcomes[1].failed
  /\ ~outcomes[2].failed
  /\ outcomes[2].ads # <<>>
  /\ allAds = outcomes[2].ads

\* A line of a report that tells of the failure e
ReportsFailure(line, e) ==
  /\ line.kind = "failed"
  /\ line.keyword = e.keyword
  /\ line.error = e.error

\* C2: every failed keyword is recorded as one (keyword, error) pair, and
\* every pair appears in the report buildSummary composes and main writes to
\* the summary file.
C2_FailuresInSummary ==
  (pc = "done" /\ ~dryRun) =>
    /\ Len(errors) = Cardinality({ k \in 1..Len(outcomes) : outcomes[k].failed })
    /\ \A k \in 1..Len(errors) :
         \E j \in 1..Len(files[1].summary) : ReportsFailure(files[1].summary[j], errors[k])

\* What the code gives instead (not a claim of its own): one pair per failed
\* keyword, in order, each listed on the console when the run ends.
C2_FailuresOnConsole ==
  (pc = "done" /\ ~dryRun) =>
    /\ Len(errors) = Cardinality({ k \in 1..Len(outcomes) : outcomes[k].failed })
    /\ \A k \in 1..Len(outcomes) :
         outcomes[k].failed =>
           \E e \in 1..Len(errors) :
             /\ errors[e].keyword = keywords[k]
             /\ e = Cardinality({ m \in 1..k : outcomes[m].failed })
    /\ \A k \in 1..Len(errors) :
         \E j \in 1..Len(console) : ReportsFailure(console[j], errors[k])

\* C5: with the location absent, or its trimmed last segment not a supported
\* market, resolveGeo returns null and the run goes on with the default
\* profile (google.co.uk, gl=uk, en-GB, Europe/London); with the location
\* absent the profile has no token and no search URL has a token parameter.
C5_DefaultProfileWhenUnresolved ==
  (pc # "start") =>
    /\ (locationStr = None \/ CountryOf(locationStr[1]) \notin SupportedMarkets) =>
         /\ geo.domain = "google.co.uk"
         /\ geo.gl = "uk"
         /\ geo.locale = "en-GB"
         /\ geo.timezoneId = "Europe/London"
    /\ locationStr = None =>
         /\ geo.uule = None
         /\ \A k \in 1..Len(urls) : urls[k].uule = None /\ urls[k].domain = "google.co.uk"

\* C5 on the country segments that are not names of inherited object members
\* (not a claim of its own: the part of C5 the code does satisfy).
C5_ExceptInheritedCountries ==
  (/\ locationStr # None
   /\ CountryOf(locationStr[1]) \in ObjectPrototypeKeys) \/ C5_DefaultProfileWhenUnresolved

(***************************************************************************)
(* Aggregation and report: buildTransformedData, buildSummary              *)
(***************************************************************************)

\* Largest number of records of the generated record collections
MaxRecords == 3

\* A record as extractAds returns it, with the fields the aggregation reads
AdRecord(keyword, position, domain, title, description) ==
  [keyword |-> keyword, position |-> position, domain |-> domain,
   title |-> title, description |-> description,
   extensions |-> <<>>, sitelinks |-> <<>>]

\* Records that differ in domain and position
PositionRecords ==
  { AdRecord(<<"x">>, p, d, <<"H", "o", "m", "e", " ", "c", "a", "r", "e">>, <<>>) :
      p \in {1, 2, 4}, d \in { <<"a", ".", "c", "o", "m">>, <<"b", ".", "c", "o", "m">> } }

\* Records that differ in domain and keyword
GroupRecords ==
  { AdRecord(kw, 1, d, <<"H", "o", "m", "e", " ", "c", "a", "r", "e">>, <<"C", "a", "r", "e", " ", "a", "t", " ", "h", "o", "m", "e">>) :
      kw \in { <<"x">>, <<"y">>, <<"2", "4">>, <<"7">>, <<"c", "o", "n", "s", "t", "r", "u", "c", "t", "o", "r">> },
      d \in { <<"a", ".", "c", "o", "m">>, <<>> } }
  \cup { AdRecord(<<"x">>, 2, <<"c", "o", "n", "s", "t", "r", "u", "c", "t", "o", "r">>, <<"H", "o", "m", "e", " ", "c", "a", "r", "e">>, <<>>) }

LongText == <<"P", "r", "i", "c", "e", " ", "l", "i", "s", "t", ":", " ">> \o Pad("p", 60)

\* Records that differ in their texts
TextRecords(d) ==
  { AdRecord(<<"x">>, 1, d, t, ds) :
      t \in { <<"F", "r", "e", "e", " ", "q", "u", "o", "t", "e", " ", "t", "o", "d", "a", "y">>, <<"L", "o", "c", "a", "l", " ", "e", "x", "p", "e", "r", "t", "s">>, <<"H", "o", "m", "e", " ", "c", "a", "r", "e">>, LongText },
      ds \in { <<>>, <<"C", "a", "l", "l", " ", "n", "o", "w", " ", "f", "o", "r", " ", "u", "r", "g", "e", "n", "t", " ", "s", "e", "r", "v", "i", "c", "e">>, <<"T", "r", "u", "s", "t", "e", "d", " ", "b", "y", " ", "5", "0", "0", "+", " ", "c", "l", "i", "e", "n", "t", "s">>,
               <<"C", "Q", "C", " ", "r", "a", "t", "e", "d", ",", " ", "o", "p", "e", "n", " ", "2", "4", " ", "h", "r", "s", ",", " ", "f", "r", "o", "m", " ", "G", "B", "P", " ", "9">> } }

RecordsUpTo(n, S) == UNION { [1..m -> S] : m \in 0..n }

AggInputs ==
  RecordsUpTo(MaxRecords, PositionRecords)
  \cup RecordsUpTo(MaxRecords, GroupRecords)
  \cup { <<r>> : r \in TextRecords(<<"a", ".", "c", "o", "m">>) }
  \cup { <<AdRecord(<<"x">>, 1, <<"a", ".", "c", "o", "m">>, <<"F", "r", "e", "e", " ", "q", "u", "o", "t", "e", " ", "t", "o", "d", "a", "y">>, <<"C", "a", "l", "l", " ", "n", "o", "w", " ", "f", "o", "r", " ", "u", "r", "g", "e", "n", "t", " ", "s", "e", "r", "v", "i", "c", "e">>),
           AdRecord(<<"x">>, 2, <<"b", ".", "c", "o", "m">>, <<"L", "o", "c", "a", "l", " ", "e", "x", "p", "e", "r", "t", "s">>, <<"T", "r", "u", "s", "t", "e", "d", " ", "b", "y", " ", "5", "0", "0", "+", " ", "c", "l", "i", "e", "n", "t", "s">>)>> }
  \cup { <<a, b, AdRecord(<<"y">>, 3, <<"b", ".", "c", "o", "m">>, <<"F", "r", "e", "e", " ", "t", "o", "d", "a", "y">>, <<>>)>> :
           a \in TextRecords(<<"a", ".", "c", "o", "m">>), b \in TextRecords(<<"b", ".", "c", "o", "m">>) }

AggKeywordList == << <<"x">>, <<"y">> >>

AggInit ==
  /\ apc = "call"
  /\ aads \in AggInputs
  /\ atransformed = None
  /\ asummary = None
  /\ GeoIdle
  /\ ExtractIdle
  /\ MainIdle
  /\ ConfigIdle

\* const transformed = buildTransformedData(allAds)
CallBuildTransformedData ==
  /\ apc = "call"
  /\ atransformed' = Some(buildTransformedData(aads))
  /\ apc' = IF buildTransformedData(aads).threw THEN "threw" ELSE "transformed"
  /\ UNCHANGED <<aads, asummary>>
  /\ UNCHANGED <<gvars, evars, mvars, cvars>>

\* const summary = buildSummary(transformed, args.client, keywords, geo)
CallBuildSummary ==
  /\ apc = "transformed"
  /\ asummary' = Some(buildSummary(atransformed[1], AggKeywordList, DefaultProfile))
  /\ apc' = "summarised"
  /\ UNCHANGED <<aads, atransformed>>
  /\ UNCHANGED <<gvars, evars, mvars, cvars>>

AggNext == CallBuildTransformedData \/ CallBuildSummary

SpecAgg == AggInit /\ [][AggNext]_vars

(***************************************************************************)
(* Properties of the fields of a record                                    *)
(***************************************************************************)

\* The anchors of the only container of the page
Anchors == epage[1].anchors

HasPcu(a) == a.pcu # None
HasRw(a) == a.rw
EnclosesTitle(a) == a.wrapsTitle /\ a.href # None
TrackingUrl(a) == a.href # None /\ Includes(a.href[1], <<"a", "c", "l", "k">>)
AbsoluteUrl(a) == a.href # None /\ StartsWith(a.href[1], <<"h", "t", "t", "p">>)

\* The anchors of the container with the clean-destination attribute, with
\* the click-tracking attribute, around the title, with a click-tracking
\* URL, with an absolute URL: their indices
WithPcu == { k \in 1..Len(Anchors) : HasPcu(Anchors[k]) }
WithRw == { k \in 1..Len(Anchors) : HasRw(Anchors[k]) }
AroundTitle == { k \in 1..Len(Anchors) : EnclosesTitle(Anchors[k]) }
WithTrackingUrl == { k \in 1..Len(Anchors) : TrackingUrl(Anchors[k]) }
WithAbsoluteUrl == { k \in 1..Len(Anchors) : AbsoluteUrl(Anchors[k]) }

\* The first and the last anchor, in document order, of a set of indices
FirstWith(S) == Anchors[CHOOSE k \in S : \A j \in S : k <= j]
LastWith(S) == Anchors[CHOOSE k \in S : \A j \in S : k >= j]

\* The link the ordered strategies give, pcuLink being the link taken from
\* an anchor with the clean-destination attribute
ChainLink(pcuLink) ==
  IF WithPcu # {} THEN pcuLink
  ELSE IF WithRw # {} THEN Href(FirstWith(WithRw))
  ELSE IF AroundTitle # {} THEN Href(LastWith(AroundTitle))
  ELSE IF WithTrackingUrl # {} THEN Href(FirstWith(WithTrackingUrl))
  ELSE IF WithAbsoluteUrl # {} THEN Href(FirstWith(WithAbsoluteUrl))
  ELSE <<>>

\* The value of the clean-destination attribute of the first anchor that
\* has one
PcuValue == FirstWith(WithPcu).pcu[1]

\* A page of one container with a title has been extracted
OneRecord ==
  /\ epc = "returned"
  /\ Len(epage) = 1
  /\ epage[1].marked
  /\ epage[1].headings # <<>>
  /\ ToLowerCase(TitleOf(epage[1])) \notin C8_StopList

\* C11 as claimed: the link comes from the first matching strategy in the
\* fixed order and an anchor with the clean-destination attribute gives the
\* value of that attribute; without a match the link is empty and the
\* record is still produced.
C11_LinkByStrategyOrder ==
  OneRecord =>
    /\ Len(eres) = 1
    /\ eres[1].link = ChainLink(IF WithPcu # {} THEN PcuValue ELSE <<>>)

\* C11 amended: as claimed, but an anchor whose clean-destination attribute
\* is empty gives its href instead of the (empty) attribute value.
C11_LinkByStrategyOrderHrefForEmpty ==
  OneRecord =>
    /\ Len(eres) = 1
    /\ eres[1].link = ChainLink(IF WithPcu = {} THEN <<>>
                                ELSE IF PcuValue # <<>> THEN PcuValue
                                ELSE Href(FirstWith(WithPcu)))

\* C11 witness: an anchor with an absolute URL precedes the anchor with the
\* clean-destination attribute and the link is the attribute value.
C11_LaterAnchorWins ==
  /\ OneRecord
  /\ Len(Anchors) = 2
  /\ AbsoluteUrl(Anchors[1]) /\ ~HasPcu(Anchors[1]) /\ ~HasRw(Anchors[1])
  /\ HasPcu(Anchors[2]) /\ Anchors[2].pcu[1] # <<>>
  /\ Len(eres) = 1
  /\ eres[1].link = Anchors[2].pcu[1]
  /\ eres[1].link # Href(Anchors[1])

\* The title of the record of the only container
Title == TitleOf(epage[1])

\* C12: the description is the longest candidate under 500 characters; if
\* no candidate is under 500 characters it is the longest candidate; without
\* a candidate it is the empty string.
C12_LongestUnder500 ==
  OneRecord =>
    LET cands == DescCandidates(epage[1], Title)
        d == eres[1].description
        Under(k) == Len(cands[k]) < 500
    IN IF cands = <<>> THEN d = <<>>
       ELSE IF \E k \in 1..Len(cands) : Under(k)
            THEN /\ \E k \in 1..Len(cands) : Under(k) /\ cands[k] = d
                 /\ \A k \in 1..Len(cands) : Under(k) => Len(cands[k]) <= Len(d)
            ELSE /\ \E k \in 1..Len(cands) : cands[k] = d
                 /\ \A k \in 1..Len(cands) : Len(cands[k]) <= Len(d)

\* C12 witness: a candidate of 500 or more characters was passed over for
\* a shorter one.
C12_OverlongPassedOver ==
  /\ OneRecord
  /\ Len(eres) = 1
  /\ \E n \in 1..Len(epage[1].nodes) : Len(Trim(epage[1].nodes[n].text)) >= 500
  /\ Len(eres[1].description) > 40
  /\ Len(eres[1].description) < 500

\* The items of the list of the container: the li elements, and the
\* anchors that are not inside an li
ListItems ==
  IF epage[1].list = None THEN <<>>
  ELSE SelectSeq(epage[1].list[1], LAMBDA m : m.tag = "LI" \/ ~m.inLi)

\* The entries the claim gives the list: one for every item with a text
\* of at most 60 characters that is not the title
ClaimedListEntries ==
  LET Keep(m) == LET text == Trim(MemberText(epage[1], m))
                 IN text # <<>> /\ Len(text) <= 60 /\ text # Title
      kept == SelectSeq(ListItems, Keep)
  IN [r \in 1..Len(kept) |->
        [title |-> Trim(MemberText(epage[1], kept[r])),
         link |-> MemberLink(epage[1], kept[r])]]

\* The entries the claim gives the scan of all anchors
ClaimedAnchorEntries ==
  LET Keep(k) == LET text == Trim(Anchors[k].text)
                 IN /\ Anchors[k].href # None
                    /\ Len(text) >= 4 /\ Len(text) <= 50
                    /\ text # Title
                    /\ ~StartsWith(text, <<"h", "t", "t", "p">>)
                    /\ k # AdLink(epage[1])
      kept == SelectIndices({ k \in 1..Len(Anchors) : Keep(k) })
  IN [r \in 1..Len(kept) |->
        [title |-> Trim(Anchors[kept[r]].text), link |-> Href(Anchors[kept[r]])]]

\* C13 as claimed: the list gives one entry for each of its items, and only
\* when it gives none the anchors of the container are scanned, those with
\* a text of 4 to 50 characters being kept.
C13_OneEntryPerListItem ==
  OneRecord =>
    /\ Len(eres) = 1
    /\ eres[1].sitelinks = IF ClaimedListEntries # <<>> THEN ClaimedListEntries
                           ELSE ClaimedAnchorEntries

\* What the code gives for a list of li elements with one anchor each (not
\* a claim of its own): two equal entries for every item.
C13_ItemWithAnchorTwice ==
  (OneRecord /\ epage[1].list # None /\ ListSitelinks(epage[1], Title) # <<>>) =>
    \A k \in 1..Len(epage[1].list[1]) :
      LET m == epage[1].list[1][k]
          text == Trim(MemberText(epage[1], m))
      IN (m.tag = "A" /\ m.inLi /\ Len(text) < 60 /\ text # Title /\ text # <<>>) =>
           Cardinality({ r \in 1..Len(eres[1].sitelinks) :
                           eres[1].sitelinks[r] = [title |-> text, link |-> MemberLink(epage[1], m)] }) >= 2

\* The link is an http or https URL with a host
ParsesAsUrl(link) ==
  \/ StartsWith(link, <<"h", "t", "t", "p", "s", ":", "/", "/">>) /\ Len(link) > 8 /\ link[9] \notin {"/", "?", "#", ":"}
  \/ StartsWith(link, <<"h", "t", "t", "p", ":", "/", "/">>) /\ Len(link) > 7 /\ link[8] \notin {"/", "?", "#", ":"}

\* C14: a page without ad container gives no record, a container without a
\* title gives no record, and a record whose link is empty or does not
\* parse as a URL is returned with the empty string for its domain.
C14_TotalOnSparseMarkup ==
  epc = "returned" =>
    /\ (\A k \in 1..Len(epage) : ~epage[k].marked) => eres = <<>>
    /\ (\A k \in 1..Len(epage) : epage[k].headings = <<>>) => eres = <<>>
    /\ OneRecord => Len(eres) = 1
    /\ \A r \in 1..Len(eres) :
         /\ ~ParsesAsUrl(eres[r].link) => eres[r].domain = <<>>
         /\ ParsesAsUrl(eres[r].link) => eres[r].domain # <<>>

\* C14 witness: a record with a link that is no URL and with the empty
\* domain was returned.
C14_UnparseableLinkKept ==
  /\ epc = "returned"
  /\ Len(eres) = 1
  /\ eres[1].link # <<>>
  /\ ~ParsesAsUrl(eres[1].link)
  /\ eres[1].domain = <<>>

(***************************************************************************)
(* Properties of the aggregation and the report                            *)
(***************************************************************************)

\* buildTransformedData has returned an object
Transformed == apc \in {"transformed", "summarised"}

\* The records of the collection with domain d, with keyword kw
OfDomain(d) == SelectSeq(aads, LAMBDA ad : ad.domain = d)
OfKeyword(kw) == SelectSeq(aads, LAMBDA ad : ad.keyword = kw)

Domains == { aads[k].domain : k \in 1..Len(aads) }
Keywords == { aads[k].keyword : k \in 1..Len(aads) }

\* The statistics of the domain groups
Stats == atransformed[1].statistics.competitors

WithKey(field, key) ==
  SelectSeq(aads, LAMBDA ad : IF field = "domain" THEN ad.domain = key ELSE ad.keyword = key)

\* The groups are a partition of the records by the field
Partition(groups, field, keys) ==
  /\ { groups[g].key : g \in 1..Len(groups) } = keys
  /\ \A g, h \in 1..Len(groups) : groups[g].key = groups[h].key => g = h
  /\ \A g \in 1..Len(groups) : groups[g].value = WithKey(field, groups[g].key)

\* C16 as claimed: buildTransformedData returns, for every record
\* collection, the groups of the records by domain and by keyword, each the
\* subsequence of the records with that key, and metadata has the number of
\* records, of distinct domains and of distinct keywords.
C16_PartitionedTwice ==
  apc \in {"threw", "transformed", "summarised"} =>
    /\ ~atransformed[1].threw
    /\ Partition(atransformed[1].competitors, "domain", Domains)
    /\ Partition(atransformed[1].keywords, "keyword", Keywords)
    /\ atransformed[1].metadata.total_ads = Len(aads)
    /\ atransformed[1].metadata.unique_domains = Cardinality(Domains)
    /\ atransformed[1].metadata.unique_keywords = Cardinality(Keywords)

\* What the code gives instead (not a claim of its own): the partitions,
\* unless a domain or keyword is the name of a member of Object.prototype,
\* and then a TypeError.
C16_ExceptInheritedKeys ==
  apc \in {"threw", "transformed", "summarised"} =>
    IF (Domains \cup Keywords) \cap ObjectPrototypeKeys # {}
    THEN atransformed[1].threw
    ELSE /\ ~atransformed[1].threw
         /\ Partition(atransformed[1].competitors, "domain", Domains)
         /\ Partition(atransformed[1].keywords, "keyword", Keywords)
         /\ atransformed[1].metadata.unique_domains = Cardinality(Domains)
         /\ atransformed[1].metadata.unique_keywords = Cardinality(Keywords)

\* The rows of the pattern table, the rows of the competitor table
Rows == SelectSeq(asummary[1], LAMBDA line : line.kind = "pattern")
Table == SelectSeq(asummary[1], LAMBDA line : line.kind = "competitor")

\* The titles and the descriptions of the records
Texts ==
  { aads[k].title : k \in 1..Len(aads) } \cup { aads[k].description : k \in 1..Len(aads) }

NameIndex(name) == CHOOSE p \in 1..Len(PatternNames) : PatternNames[p] = name

\* C17: the pattern table has one row for each classifier that matches a
\* title or description and none for the others, in the order pricing,
\* urgency, social proof, regulation, local; a text may be under several
\* classifiers, and without any match the table is empty.
C17_RowPerMatchingClassifier ==
  apc = "summarised" =>
    /\ \A p \in 1..Len(PatternNames) :
         Cardinality({ r \in 1..Len(Rows) : Rows[r].name = PatternNames[p] })
           = IF \E t \in Texts : PatternTest(PatternNames[p], t) THEN 1 ELSE 0
    /\ \A r, q \in 1..Len(Rows) : r < q => NameIndex(Rows[r].name) < NameIndex(Rows[q].name)
    /\ (\A t \in Texts : \A p \in 1..Len(PatternNames) : ~PatternTest(PatternNames[p], t))
         => Rows = <<>>

\* C17 witness: one text is an example of two rows while another
\* classifier has no row.
C17_TextUnderTwoClassifiers ==
  /\ apc = "summarised"
  /\ Len(Rows) \in 2..(Len(PatternNames) - 1)
  /\ Rows[1].examples[1] = Rows[2].examples[1]

\* The place of a domain in the competitor table
TablePlace(d) == CHOOSE k \in 1..Len(Table) : Table[k].domain = d

\* The texts that match the classifier of a row, in the order of allText:
\* by domain in the order of the competitor table, titles before
\* descriptions
MatchesOf(row) ==
  SelectSeq(AllText([k \in 1..Len(Table) |->
                       [key |-> Table[k].domain,
                        value |-> Stats[CHOOSE g \in 1..Len(Stats) :
                                          Stats[g].key = Table[k].domain].value]]),
            LAMBDA t : PatternTest(row.name, t.text))

\* The characters of domain names in ascending order of their code
CharOrder == <<"-", ".", "0", "1", "2", "3", "4", "5", "6", "7", "8", "9", "_", "a", "b", "c", "d", "e", "f", "g", "h", "i", "j", "k", "l", "m", "n", "o", "p", "q", "r", "s", "t", "u", "v", "w", "x", "y", "z">>
CharCode(c) == CHOOSE k \in 1..Len(CharOrder) : CharOrder[k] = c

\* a is before b in the order of Array.prototype.sort
LexLess(a, b) ==
  \E k \in 1..(Len(b)) :
    /\ \A j \in 1..(k - 1) : j <= Len(a) /\ a[j] = b[j]
    /\ k > Len(a) \/ CharCode(a[k]) < CharCode(b[k])

\* Each row has at most two examples, the first matches cut to 60
\* characters, and every domain with a match once
ExamplesAndDomains(row) ==
  /\ Len(row.examples) <= 2
  /\ Len(row.examples) = (IF Len(MatchesOf(row)) < 2 THEN Len(MatchesOf(row)) ELSE 2)
  /\ \A k \in 1..Len(row.examples) :
       /\ Len(row.examples[k]) <= 60
       /\ row.examples[k] = SubSeq(MatchesOf(row)[k].text, 1, Len(row.examples[k]))
       /\ Len(row.examples[k]) = 60 \/ row.examples[k] = MatchesOf(row)[k].text
  /\ { row.who[k] : k \in 1..Len(row.who) }
       = { MatchesOf(row)[k].domain : k \in 1..Len(MatchesOf(row)) }
  /\ \A j, k \in 1..Len(row.who) : row.who[j] = row.who[k] => j = k

\* C18 as claimed: each row lists at most two examples of at most 60
\* characters and the distinct domains that matched, each once, in sorted
\* order.
C18_DomainsInSortedOrder ==
  apc = "summarised" =>
    \A r \in 1..Len(Rows) :
      /\ ExamplesAndDomains(Rows[r])
      /\ \A j, k \in 1..Len(Rows[r].who) : j < k => LexLess(Rows[r].who[j], Rows[r].who[k])

\* C18 amended: as claimed, but the domains are in the order of the
\* competitor table (most ads first), not sorted by name.
C18_DomainsInTableOrder ==
  apc = "summarised" =>
    \A r \in 1..Len(Rows) :
      /\ ExamplesAndDomains(Rows[r])
      /\ \A j, k \in 1..Len(Rows[r].who) :
           j < k => TablePlace(Rows[r].who[j]) < TablePlace(Rows[r].who[k])

\* C18 witness: a row with three matches shows two examples, one of them
\* cut to 60 characters, and two domains.
C18_ThreeMatchesTwoShown ==
  /\ apc = "summarised"
  /\ \E r \in 1..Len(Rows) :
       /\ Len(MatchesOf(Rows[r])) >= 3
       /\ Len(Rows[r].examples) = 2
       /\ \E k \in 1..2 : /\ Len(Rows[r].examples[k]) = 60
                          /\ Len(MatchesOf(Rows[r])[k].text) > 60
       /\ Len(Rows[r].who) = 2

\* Index of the first record of the domain in the collection
FirstOccurrence(d) ==
  CHOOSE k \in 1..Len(aads) : aads[k].domain = d /\ \A j \in 1..(k - 1) : aads[j].domain # d

\* The lines of the ads of a keyword in the report
AdLines(kw) == SelectSeq(asummary[1], LAMBDA line : line.kind = "ad" /\ line.keyword = kw)

\* C19: the competitor table has every domain once, most ads first, domains
\* with equally many ads in the order of their first occurrence in the
\* collection; under every keyword its ads are listed in the order of the
\* collection.
C19_TableByAdCountThenCreation ==
  apc = "summarised" =>
    /\ { Table[k].domain : k \in 1..Len(Table) } = Domains
    /\ Len(Table) = Cardinality(Domains)
    /\ \A k \in 1..Len(Table) : Table[k].total_ads = Len(OfDomain(Table[k].domain))
    /\ \A j, k \in 1..Len(Table) :
         j < k => \/ Table[j].total_ads > Table[k].total_ads
                  \/ /\ Table[j].total_ads = Table[k].total_ads
                     /\ FirstOccurrence(Table[j].domain) < FirstOccurrence(Table[k].domain)
    /\ \A kw \in Keywords :
         /\ Len(AdLines(kw)) = Len(OfKeyword(kw))
         /\ \A k \in 1..Len(AdLines(kw)) :
              /\ AdLines(kw)[k].position = OfKeyword(kw)[k].position
              /\ AdLines(kw)[k].domain = OfKeyword(kw)[k].domain
              /\ AdLines(kw)[k].title = OfKeyword(kw)[k].title

\* C19 witness: the domain created second has more ads and is listed
\* first.
C19_LaterDomainListedFirst ==
  /\ apc = "summarised"
  /\ Len(Table) = 2
  /\ Table[1].total_ads > Table[2].total_ads
  /\ Table[2].domain = aads[1].domain

\* The two records of the scenario
Scenario ==
  << AdRecord(<<"x">>, 1, <<"a", ".", "c", "o", "m">>, <<"F", "r", "e", "e", " ", "q", "u", "o", "t", "e", " ", "t", "o", "d", "a", "y">>, <<"C", "a", "l", "l", " ", "n", "o", "w", " ", "f", "o", "r", " ", "u", "r", "g", "e", "n", "t", " ", "s", "e", "r", "v", "i", "c", "e">>),
     AdRecord(<<"x">>, 2, <<"b", ".", "c", "o", "m">>, <<"L", "o", "c", "a", "l", " ", "e", "x", "p", "e", "r", "t", "s">>, <<"T", "r", "u", "s", "t", "e", "d", " ", "b", "y", " ", "5", "0", "0", "+", " ", "c", "l", "i", "e", "n", "t", "s">>) >>

Row(name, examples, who) ==
  [kind |-> "pattern", name |-> name, examples |-> examples, who |-> who]

ScenarioStats ==
  /\ Len(Table) = 2
  /\ Table[1].domain = <<"a", ".", "c", "o", "m">> /\ Table[1].total_ads = 1 /\ Table[1].avg_position = 10
  /\ Table[2].domain = <<"b", ".", "c", "o", "m">> /\ Table[2].total_ads = 1 /\ Table[2].avg_position = 20

\* C20 as claimed: the scenario gives a.com and b.com one ad each with the
\* averages 1.0 and 2.0, and four rows, each with its one example and its
\* one domain; there is no regulation row.
C20_ScenarioFourRows ==
  (apc = "summarised" /\ aads = Scenario) =>
    /\ ScenarioStats
    /\ Rows = << Row("Pricing/cost", << <<"F", "r", "e", "e", " ", "q", "u", "o", "t", "e", " ", "t", "o", "d", "a", "y">> >>, << <<"a", ".", "c", "o", "m">> >>),
                 Row("Urgency/speed", << <<"C", "a", "l", "l", " ", "n", "o", "w", " ", "f", "o", "r", " ", "u", "r", "g", "e", "n", "t", " ", "s", "e", "r", "v", "i", "c", "e">> >>, << <<"a", ".", "c", "o", "m">> >>),
                 Row("Social proof", << <<"T", "r", "u", "s", "t", "e", "d", " ", "b", "y", " ", "5", "0", "0", "+", " ", "c", "l", "i", "e", "n", "t", "s">> >>, << <<"b", ".", "c", "o", "m">> >>),
                 Row("Local/geographic", << <<"L", "o", "c", "a", "l", " ", "e", "x", "p", "e", "r", "t", "s">> >>, << <<"b", ".", "c", "o", "m">> >>) >>

\* C20 amended: as claimed, but the urgency row has two examples, the
\* title "Free quote today", which matches "today", before the description.
C20_ScenarioUrgencyTwoExamples ==
  (apc = "summarised" /\ aads = Scenario) =>
    /\ ScenarioStats
    /\ Rows = << Row("Pricing/cost", << <<"F", "r", "e", "e", " ", "q", "u", "o", "t", "e", " ", "t", "o", "d", "a", "y">> >>, << <<"a", ".", "c", "o", "m">> >>),
                 Row("Urgency/speed", << <<"F", "r", "e", "e", " ", "q", "u", "o", "t", "e", " ", "t", "o", "d", "a", "y">>,
                                         <<"C", "a", "l", "l", " ", "n", "o", "w", " ", "f", "o", "r", " ", "u", "r", "g", "e", "n", "t", " ", "s", "e", "r", "v", "i", "c", "e">> >>, << <<"a", ".", "c", "o", "m">> >>),
                 Row("Social proof", << <<"T", "r", "u", "s", "t", "e", "d", " ", "b", "y", " ", "5", "0", "0", "+", " ", "c", "l", "i", "e", "n", "t", "s">> >>, << <<"b", ".", "c", "o", "m">> >>),
                 Row("Local/geographic", << <<"L", "o", "c", "a", "l", " ", "e", "x", "p", "e", "r", "t", "s">> >>, << <<"b", ".", "c", "o", "m">> >>) >>

\* C20 witness: the report of the scenario has been composed.
C20_ScenarioSummarised ==
  /\ apc = "summarised"
  /\ aads = Scenario
  /\ Len(Rows) = 4

(***************************************************************************)
(* Properties of the configuration of a run                                *)
(***************************************************************************)

\* The run has a client and, if it names a project, the project
HasSources == cli # Null /\ cli.client # None /\ (cli.project # None => project # Null)

\* The preset of the client
ClientPreset == Preset(presets, cli.client[1])

\* The locations and keyword lists of the sources, highest priority first;
\* None where a source has none
LocationSources ==
  << cli.location, IF cli.project # None THEN project.location ELSE None,
     ClientPreset.location >>
KeywordSources ==
  << cli.keywords, IF cli.project # None THEN project.keywords ELSE None,
     ClientPreset.keywords >>

SuppliesLocation(k) == LocationSources[k] # None /\ LocationSources[k][1] # <<>>
SuppliesKeywords(k) == KeywordSources[k] # None

\* Location and keywords are those of the highest-priority source that
\* supplies one, and a run without keywords ends before the browser is
\* launched
PriorityOfSources ==
  /\ (HasSources /\ pc \in {"start", "home", "done"}) =>
       /\ \A k \in 1..3 :
            (SuppliesLocation(k) /\ \A j \in 1..(k - 1) : ~SuppliesLocation(j))
              => locationStr = LocationSources[k]
       /\ (\A k \in 1..3 : ~SuppliesLocation(k)) => Falsy(locationStr)
       /\ \A k \in 1..3 :
            (SuppliesKeywords(k) /\ \A j \in 1..(k - 1) : ~SuppliesKeywords(j))
              => keywords = KeywordSources[k][1]
       /\ keywords # <<>>
  /\ (HasSources /\ ((\A k \in 1..3 : ~SuppliesKeywords(k))
                      \/ \E k \in 1..3 : /\ SuppliesKeywords(k)
                                         /\ \A j \in 1..(k - 1) : ~SuppliesKeywords(j)
                                         /\ KeywordSources[k][1] = <<>>))
       => (pc \in {"args", "exit"} /\ ~contextOpen)
  /\ pc = "exit" => ~contextOpen

\* C21 as claimed: priority flag, project, preset for location and keywords,
\* the default profile only when no source supplies a resolvable location,
\* and no browser for a run without keywords.
C21_DefaultOnlyWithoutResolvable ==
  (cli # Null) =>
    /\ PriorityOfSources
    /\ (HasSources /\ pc \in {"home", "done"} /\ geo = DefaultProfile) =>
         \A k \in 1..3 : SuppliesLocation(k) => resolveGeo(LocationSources[k]) = Null

\* C21 amended: as claimed, but the default profile is used whenever the
\* location of the highest-priority source does not resolve, whatever the
\* sources below it supply.
C21_DefaultWhenChosenUnresolved ==
  (cli # Null) =>
    /\ PriorityOfSources
    /\ (HasSources /\ pc \in {"home", "done"}) =>
         geo = IF resolveGeo(locationStr) = Null THEN DefaultProfile
               ELSE resolveGeo(locationStr)

\* C21 witness: without the flag the location of the project is used, not
\* the one of the preset, and its profile.
C21_ProjectBeforePreset ==
  /\ cli # Null
  /\ HasSources
  /\ pc = "home"
  /\ ~SuppliesLocation(1) /\ SuppliesLocation(2) /\ SuppliesLocation(3)
  /\ LocationSources[2] # LocationSources[3]
  /\ locationStr = LocationSources[2]
  /\ geo = resolveGeo(LocationSources[2])
  /\ geo # DefaultProfile

(***************************************************************************)
(* Properties of the title of a record                                     *)
(***************************************************************************)

\* The headings of the container, in document order, and those with the
\* heading role
Headings == epage[1].headings
RoleHeadings == { k \in 1..Len(Headings) : Headings[k].kind = "role" }

\* The title by the chain heading role, then legacy tag: the text of the
\* first heading-role element, or of the first h3 if there is none
ChainTitle ==
  IF RoleHeadings # {}
  THEN Trim(Headings[CHOOSE k \in RoleHeadings : \A j \in RoleHeadings : k <= j].text)
  ELSE Trim(Headings[1].text)

\* C22 as claimed: the title is the trimmed text of the heading-role
\* element whatever the document order, of the legacy heading tag only when
\* there is no heading-role element, and a container with neither gives no
\* record.
C22_HeadingRoleBeforeLegacyTag ==
  (epc = "returned" /\ Len(epage) = 1 /\ epage[1].marked) =>
    /\ Headings = <<>> => eres = <<>>
    /\ (Headings # <<>> /\ ToLowerCase(ChainTitle) \notin skipLabels) =>
         (Len(eres) = 1 /\ eres[1].title = ChainTitle)

\* C22 for the containers the chain is right about: the heading-role element
\* comes first in the document, or there is none.
C22_FirstHeadingInDocumentOrder ==
  (epc = "returned" /\ Len(epage) = 1 /\ epage[1].marked) =>
    /\ Headings = <<>> => eres = <<>>
    /\ (Headings # <<>> /\ ToLowerCase(Trim(Headings[1].text)) \notin skipLabels) =>
         (Len(eres) = 1 /\ eres[1].title = Trim(Headings[1].text))
    /\ (Headings # <<>> /\ ToLowerCase(Trim(Headings[1].text)) \in skipLabels) =>
         eres = <<>>

\* A legacy heading tag before a heading-role element gives the title
C22_LegacyTagFirstWins ==
  /\ epc = "returned" /\ Len(epage) = 1 /\ epage[1].marked
  /\ Len(Headings) = 2
  /\ Headings[1].kind = "h3" /\ Headings[2].kind = "role"
  /\ Len(eres) = 1
  /\ eres[1].title = Trim(Headings[1].text)
  /\ eres[1].title # ChainTitle

(***************************************************************************)
(* Properties of the description candidates                                *)
(***************************************************************************)

\* The div and span elements whose text is t
NodesWithText(t) ==
  { k \in 1..Len(epage[1].nodes) : Trim(epage[1].nodes[k].text) = t }

\* The node is inside a heading element
InsideHeading(n) == n.inRoleHeading \/ n.inH3

\* The node is an ancestor of the title element
AroundTitleElement(n) ==
  IF Headings[1].kind = "role" THEN n.hasRoleHeading ELSE n.hasH3

\* The text is free of the title, of a leading URL scheme and of the
\* disclosure boilerplate
PlainText(t) ==
  /\ t # Title
  /\ ~StartsWith(t, <<"h", "t", "t", "p">>)
  /\ ~Includes(t, <<"W", "h", "y", " ", "t", "h", "i", "s", " ", "a", "d">>)
  /\ ~Includes(t, <<"H", "i", "d", "e", " ", "s", "p", "o", "n", "s", "o", "r", "e", "d">>)

\* The candidates of the container
Candidates ==
  LET cands == DescCandidates(epage[1], Title)
  IN { cands[k] : k \in 1..Len(cands) }

\* C23 as claimed: no candidate is the title, starts with a URL scheme, has
\* disclosure boilerplate, or is the text of an element inside a heading or
\* around the title element, whichever kind of heading gave the title; the
\* description does not contain the title.
C23_NeverAroundTitle ==
  OneRecord =>
    /\ \A t \in Candidates :
         /\ PlainText(t)
         /\ \A k \in NodesWithText(t) :
              /\ ~InsideHeading(epage[1].nodes[k])
              /\ ~AroundTitleElement(epage[1].nodes[k])
    /\ ~Includes(eres[1].description, Title)

\* C23 for a title found through the heading role
C23_NeverAroundRoleHeading ==
  (OneRecord /\ Headings[1].kind = "role") =>
    /\ \A t \in Candidates :
         /\ PlainText(t)
         /\ \A k \in NodesWithText(t) :
              /\ ~InsideHeading(epage[1].nodes[k])
              /\ ~AroundTitleElement(epage[1].nodes[k])
    /\ ~Includes(eres[1].description, Title)

\* The text of the element around an h3 title is the description
C23_WrapperOfLegacyTitle ==
  /\ OneRecord
  /\ Headings[1].kind = "h3"
  /\ \E k \in 1..Len(epage[1].nodes) :
       /\ epage[1].nodes[k].hasH3
       /\ eres[1].description = Trim(epage[1].nodes[k].text)
  /\ Includes(eres[1].description, Title)

(***************************************************************************)
(* Properties of the keyword loop                                          *)
(***************************************************************************)

\* The loop over the keywords has finished
LoopFinished == ~dryRun /\ pc \in {"loop", "done", "fatal"} /\ i = Len(keywords)

\* The positions of the keyword list that failed, and the number of them up
\* to position k
FailedPositions == { k \in 1..Len(outcomes) : outcomes[k].failed }
FailuresUpTo(k) == Cardinality({ j \in FailedPositions : j <= k })

\* The keyword stands once in the list
OccursOnce(k) == \A j \in 1..Len(keywords) : keywords[j] = keywords[k] => j = k

\* C24: when the loop has finished every keyword of the list has either
\* completed, its records appended to the collection, or has exactly one
\* entry in the error list, never both; a keyword with an error entry has
\* contributed no record, also when the debug capture failed after the
\* extraction.
C24_CompletedOrOneError ==
  LoopFinished =>
    /\ Len(outcomes) = Len(keywords)
    /\ Len(errors) = Cardinality(FailedPositions)
    /\ \A k \in FailedPositions :
         /\ errors[FailuresUpTo(k)].keyword = keywords[k]
         /\ outcomes[k].ads = <<>>
         /\ OccursOnce(k) =>
              /\ \A r \in 1..Len(allAds) : allAds[r].keyword # keywords[k]
              /\ Cardinality({ e \in 1..Len(errors) : errors[e].keyword = keywords[k] }) = 1
    /\ \A k \in (1..Len(keywords)) \ FailedPositions :
         OccursOnce(k) => \A e \in 1..Len(errors) : errors[e].keyword # keywords[k]
    /\ allAds = SucceededAds(Len(keywords))
    /\ \A r \in 1..Len(allAds) :
         \E k \in (1..Len(keywords)) \ FailedPositions : allAds[r].keyword = keywords[k]

\* C24 witness: one keyword failed in the debug capture after an extraction
\* without records, the other completed with records.
C24_DebugCaptureFailed ==
  /\ LoopFinished
  /\ Len(keywords) = 2
  /\ keywords[1] # keywords[2]
  /\ outcomes[1].failed /\ outcomes[1].stage = "debug"
  /\ ~outcomes[2].failed /\ outcomes[2].ads # <<>>
  /\ Len(errors) = 1 /\ errors[1].keyword = keywords[1]
  /\ allAds = outcomes[2].ads

(***************************************************************************)
(* Properties of the end of a run                                          *)
(***************************************************************************)

\* A run that launched the browser has ended
RunEnded == ~dryRun /\ pc \in {"done", "fatal"}

\* The home page loaded: the loop was entered and built a search URL (the
\* keyword list is never empty)
HomeNavigated == urls # <<>>

\* The three files hold the records, the transformed data and the summary
ThreeFiles ==
  /\ files # None
  /\ files[1].raw = allAds
  /\ files[1].data = buildTransformedData(allAds)
  /\ files[1].summary = buildSummary(buildTransformedData(allAds), keywords, geo)

\* C25 as claimed: the context is closed before outputs are written or the
\* run ends, and the three files are written if and only if the home page
\* loaded, whatever the keywords gave; when it did not load the run ends
\* fatally with no keyword processed and no file.
C25_FilesIffHomeLoaded ==
  /\ (RunEnded \/ files # None) => ~contextOpen
  /\ RunEnded =>
       /\ HomeNavigated <=> files # None
       /\ HomeNavigated => (pc = "done" /\ ThreeFiles)
       /\ ~HomeNavigated => (pc = "fatal" /\ outcomes = <<>> /\ allAds = <<>>)

\* C25 with the runs in which buildTransformedData throws set apart: those
\* end fatally without files although the home page loaded.
C25_FilesUnlessGroupingThrows ==
  /\ (RunEnded \/ files # None) => ~contextOpen
  /\ RunEnded =>
       /\ (HomeNavigated /\ ~buildTransformedData(allAds).threw) <=> files # None
       /\ files # None => (pc = "done" /\ ThreeFiles)
       /\ files = None => pc = "fatal"
       /\ ~HomeNavigated => (outcomes = <<>> /\ allAds = <<>>)

\* The home page loaded, a keyword gave a record, and the run ended fatally
\* without files
C25_LoadedButNoFiles ==
  /\ RunEnded
  /\ HomeNavigated
  /\ allAds # <<>>
  /\ pc = "fatal"
  /\ files = None

\* Every keyword failed and the files were written
C25_FilesAfterFailuresOnly ==
  /\ RunEnded
  /\ Len(errors) = Len(keywords)
  /\ ThreeFiles

====
